---- MODULE Spec2Model ----
(***************************************************************************)
(* focus-guard: the session registry (StateManager), its per-session state *)
(* machine, the timer sweep and the aggregate/notifier callback.           *)
(*                                                                         *)
(* Time.  An Instant is represented by its elapsed() value, in ticks of    *)
(* 1/TicksPerSec second, saturating at MaxAge: `last_update` and           *)
(* `stop_received_at` hold "ticks since the instant was taken".  The       *)
(* registry thread's processing steps take no time; time passes only while *)
(* the thread is blocked in recv_timeout with an empty channel.            *)
(***************************************************************************)
EXTENDS Integers, Sequences, FiniteSets, TLC

VARIABLES
    cli_states,            \* HashMap<String, CliStatus> behind the registry mutex
    channel,               \* mpsc channel: CliMessages sent and not yet received
    pc,                    \* position of the registry thread in its loop
    waited,                \* ticks spent in the current recv_timeout call
    last_aggregate_state,  \* local of the registry thread
    current,               \* current_pid / current_cwd / current_cli of the event branch
    state_updated,         \* local of the timeout branch
    callback,              \* the StateChangeEvent on_state_change is running with
    prev_aggregate,        \* history: aggregate computed by the previous recomputation
    reported,              \* history: aggregate and flag of the previous invocation
    mutated,               \* history: the current loop iteration changed the registry
    states_guard,          \* the thread holding the MutexGuard of cli_states
    reference,             \* a second registry's map, fed every event at once
    replica,               \* a third registry's map, fed the same events over time
    swept,                 \* history: a sweep has changed a record of replica
    last_activity,         \* ActivityMonitor: AtomicU64, seconds since the epoch
    is_monitoring,         \* ActivityMonitor: AtomicBool
    event_count,           \* ActivityMonitor: AtomicU64
    monitoring_start_time, \* ActivityMonitor: AtomicU64, seconds since the epoch
    wall_clock,            \* SystemTime::now() in whole seconds
    observer,              \* position of the rdev callback in the event it handles
    caller,                \* the thread calling start_monitoring / is_inactive_for
    recorded,              \* history: an event was counted since start_monitoring was called
    recorded_before,       \* history: an event was counted before that call
    disturbed,             \* history: a field was written while the query runs
    is_running,            \* ActivityMonitor: AtomicBool
    starting,              \* position of each thread that calls ActivityMonitor::start
    loops,                 \* threads inside rdev::listen
    launched,              \* history: threads start() has spawned
    listen_failed,         \* history: rdev::listen has returned an error
    sitting_reminder_enabled, \* AppConfig
    sound_enabled,         \* AppConfig
    auto_bring_to_front,   \* AppConfig
    socket_file,           \* whose file is at SOCKET_PATH
    other_listener,        \* another process is listening on SOCKET_PATH
    denied,                \* this user may neither remove nor create SOCKET_PATH
    server,                \* position of the IPC server thread
    conns,                 \* the connections of the clients and their worker threads
    host,                  \* the application process
    after_close,           \* history: work of the server since a worker ended
    tray_state,            \* AppState: TrayState
    fired,                 \* what the last run of the state change callback sent the user
    sitting_minutes,       \* AppState: u32
    awaiting_standup,      \* SittingReminderState
    reminder_sent_at,      \* SittingReminderState: Option<Instant>, as the wall clock's second
    cli_processes,         \* the CLI processes a process scan finds
    typed,                 \* history: input has reached the rdev callback since the
                           \* last sitting reminder
    owner,                \* the thread holding the guard of each mutex of AppState
    todo                   \* what each thread has left to lock and drop in its turn

registry_vars == <<cli_states, channel, pc, waited, last_aggregate_state, current,
                   state_updated, callback, prev_aggregate, reported, mutated,
                   states_guard>>

replica_vars == <<reference, replica, swept>>

monitor_vars == <<last_activity, is_monitoring, event_count, monitoring_start_time,
                  wall_clock, observer, caller, recorded, recorded_before, disturbed>>

listen_vars == <<is_running, starting, loops, launched, listen_failed>>

config_vars == <<sitting_reminder_enabled, sound_enabled, auto_bring_to_front>>

ipc_vars == <<socket_file, other_listener, denied, server, conns, host, after_close>>

alert_vars == <<tray_state, fired, sitting_minutes, awaiting_standup,
                reminder_sent_at>>

scan_vars == <<cli_processes>>

input_vars == <<typed>>

lock_vars == <<owner, todo>>

\* The variables the registry thread and its senders leave alone.
beside_registry == <<replica_vars, monitor_vars, listen_vars, config_vars, ipc_vars,
                     alert_vars, scan_vars, input_vars, lock_vars>>

\* The variables the state change callback leaves alone, the registry thread's
\* aside.
beside_callback == <<replica_vars, listen_vars, config_vars, ipc_vars, scan_vars,
                     is_monitoring, event_count, monitoring_start_time, wall_clock,
                     observer, caller, recorded, recorded_before, sitting_minutes, lock_vars>>

\* The variables the further registries leave alone.
beside_replica == <<registry_vars, monitor_vars, listen_vars, config_vars, ipc_vars,
                    alert_vars, scan_vars, input_vars, lock_vars>>

\* The variables the rdev callback leaves alone when it is called, the
\* monitor's aside.
beside_input == <<registry_vars, replica_vars, listen_vars, config_vars, ipc_vars,
                  alert_vars, scan_vars, lock_vars>>

\* The variables the activity monitor and its threads leave alone.
beside_monitor == <<registry_vars, replica_vars, listen_vars, config_vars, ipc_vars,
                    alert_vars, scan_vars, input_vars, lock_vars>>

\* The variables the threads that call ActivityMonitor::start leave alone.
beside_listen == <<registry_vars, replica_vars, monitor_vars, ipc_vars,
                   alert_vars, scan_vars, input_vars, lock_vars>>

\* The variables the IPC server leaves alone, the channel aside.
beside_ipc == <<replica_vars, monitor_vars, listen_vars, config_vars,
                alert_vars, scan_vars, input_vars, lock_vars>>

\* The variables the sitting timer leaves alone.
beside_sitting == <<registry_vars, replica_vars, monitor_vars, listen_vars,
                    config_vars, ipc_vars, scan_vars, input_vars, lock_vars>>

\* The variables the CLI processes leave alone.
beside_scan == <<registry_vars, replica_vars, monitor_vars, listen_vars,
                 config_vars, ipc_vars, alert_vars, input_vars, lock_vars>>

\* The variables a thread that locks or drops a mutex leaves alone, the
\* registry's and the guards aside.
beside_registry_but_locks ==
    <<replica_vars, monitor_vars, listen_vars, config_vars, ipc_vars,
      alert_vars, scan_vars, input_vars>>

\* The registry's variables such a thread leaves alone, the channel aside.
beside_channel_but_guard ==
    <<cli_states, pc, waited, last_aggregate_state, current, state_updated,
      callback, prev_aggregate, reported, mutated>>

\* The registry's variables the IPC server leaves alone.
beside_channel == <<cli_states, pc, waited, last_aggregate_state, current,
                    state_updated, callback, prev_aggregate, reported, mutated,
                    states_guard>>

vars == <<registry_vars, replica_vars, monitor_vars, listen_vars, config_vars,
          ipc_vars, alert_vars, scan_vars, input_vars, lock_vars>>

-----------------------------------------------------------------------------
(* Bounds of the model *)

TicksPerSec == 1      \* resolution of the clock
MaxChannel == 1       \* messages in flight in the mpsc channel
Horizon == 3          \* ticks an age is followed beyond the longest timeout
BootTime == 1         \* wall clock when the application starts
MaxEvents == 2        \* input events counted in one monitoring window
Slack == 1            \* seconds the wall clock is followed beyond the stand-up time
MaxLaunches == 2      \* threads ActivityMonitor::start spawns in one run
MaxConns == 2         \* connections made to the IPC server in one run
MaxLines == 2         \* lines a client writes on one connection
MaxMinutes == 1       \* minutes the sitting timer counts in one run

(* Program constants *)

RecvTimeoutSecs == 1  \* recv_timeout(Duration::from_secs(1))
GraceSecs == 3        \* stop_time.elapsed() > Duration::from_secs(3)
waiting_timeout == 10 \* Duration::from_secs(10)
IdleFactor == 6       \* timeout * 6
StandupSecs == 120    \* is_inactive_for(120)
sitting_reminder_interval == 1  \* AppConfig: sitting_reminder_interval_minutes

RecvTimeoutTicks == RecvTimeoutSecs * TicksPerSec
GraceTicks == GraceSecs * TicksPerSec
IdleTicks == waiting_timeout * IdleFactor * TicksPerSec
MaxAge == IdleTicks + Horizon       \* saturation of last_update.elapsed()
MaxStopAge == GraceTicks + Horizon  \* saturation of stop_time.elapsed()
MaxClock == BootTime + StandupSecs + Slack  \* last second of the run

NoPid == 0            \* Option<u32>::None
NoInstant == -1       \* Option<Instant>::None
None == "None"        \* Option<String>::None, Option<CliEvent>::None

-----------------------------------------------------------------------------
(* Types *)

CliState == {"Working", "WaitingInput", "Idle", "Offline"}

CliEvent == {"SessionStart", "SessionEnd", "Working", "Stop",
             "IdlePrompt", "PermissionPrompt"}

\* The hooks that report to the registry: the tool identifier, the session id,
\* and the pid and cwd their messages carry.
Hooks == { [cli |-> "claude", session_id |-> "a",  pid |-> 7,     cwd |-> "/w/app"],
           [cli |-> "gemini", session_id |-> None, pid |-> NoPid, cwd |-> None],
           [cli |-> "claude", session_id |-> None, pid |-> NoPid, cwd |-> None] }

Pids == {NoPid, 7, 9}
Cwds == {None, "/w/app"}

\* Every message a hook can send.
CliMessage == { [cli |-> h.cli, event |-> e, pid |-> h.pid,
                 session_id |-> h.session_id, cwd |-> h.cwd] :
                  h \in Hooks, e \in CliEvent }

\* The messages of the session claude:a and of the tool gemini.
SessionMessage == { m \in CliMessage : m.session_id = "a" \/ m.cli = "gemini" }

\* The messages of a run in which the gemini hook reports tool use and exit only
\* (BeforeAgent / BeforeTool -> working, and session_end).
BusyMessage == { m \in SessionMessage :
                   m.cli = "gemini" => m.event \in {"Working", "SessionEnd"} }

-----------------------------------------------------------------------------
(* Pure functions of state_manager.rs *)

capitalize_first(s) ==
    CASE s = "claude" -> "Claude"
      [] s = "gemini" -> "Gemini"
      [] s = "codex"  -> "Codex"
      [] OTHER        -> s

\* Path::new(path).file_name()
file_name(path) ==
    CASE path = "/w/app" -> "app"
      [] OTHER           -> path

format_display_name(cli_name, cwd) ==
    IF cwd # None
    THEN capitalize_first(cli_name) \o " - " \o file_name(cwd)
    ELSE capitalize_first(cli_name)

\* Mutant: the session id is left out of the key.
make_state_key_ToolOnly(cli, session_id) == cli

make_state_key(cli, session_id) ==
    IF session_id # None THEN cli \o ":" \o session_id ELSE cli

with_details(cli_name, session_id, cwd) ==
    [ cli_name         |-> cli_name,
      state            |-> "Offline",
      pid              |-> NoPid,
      last_event       |-> None,
      last_update      |-> 0,
      session_id       |-> session_id,
      cwd              |-> cwd,
      display_name     |-> format_display_name(cli_name, cwd),
      stop_received_at |-> NoInstant ]

\* Mutant: PermissionPrompt deferred like a Stop.
NewState_PermissionDeferred(event, state) ==
    CASE event = "SessionStart"     -> "Working"
      [] event = "SessionEnd"       -> "Offline"
      [] event = "Working"          -> "Working"
      [] event = "Stop"             -> IF state = "Offline" THEN "Working" ELSE state
      [] event = "IdlePrompt"       -> "Idle"
      [] event = "PermissionPrompt" -> IF state = "Offline" THEN "Working" ELSE state

\* Mutant: SessionEnd leaves the state as it is.
NewState_EndKeepsState(event, state) ==
    CASE event = "SessionStart"     -> "Working"
      [] event = "SessionEnd"       -> state
      [] event = "Working"          -> "Working"
      [] event = "Stop"             -> IF state = "Offline" THEN "Working" ELSE state
      [] event = "IdlePrompt"       -> "Idle"
      [] event = "PermissionPrompt" -> "WaitingInput"

\* Mutant: Stop always yields Working.
NewState_StopForcesWorking(event, state) ==
    CASE event = "SessionStart"     -> "Working"
      [] event = "SessionEnd"       -> "Offline"
      [] event = "Working"          -> "Working"
      [] event = "Stop"             -> "Working"
      [] event = "IdlePrompt"       -> "Idle"
      [] event = "PermissionPrompt" -> "WaitingInput"

\* The `match msg.event` of the event branch: the new state of the record.
NewState(event, state) ==
    CASE event = "SessionStart"     -> "Working"
      [] event = "SessionEnd"       -> "Offline"
      [] event = "Working"          -> "Working"
      [] event = "Stop"             -> IF state = "Offline" THEN "Working" ELSE state
      [] event = "IdlePrompt"       -> "Idle"
      [] event = "PermissionPrompt" -> "WaitingInput"

\* Mutant: IdlePrompt starts a grace window like a Stop.
NewStopReceivedAt_OnIdle(event) ==
    IF event \in {"Stop", "IdlePrompt"} THEN 0 ELSE NoInstant

\* The `match msg.event` of the event branch: the new stop_received_at.
NewStopReceivedAt(event) ==
    IF event = "Stop" THEN 0 ELSE NoInstant

\* Mutant: an event that follows the previous one at once keeps the state.
ApplyEvent_Debounced(status, msg) ==
    LET s1 == [status EXCEPT !.last_event = msg.event,
                             !.last_update = 0,
                             !.pid = msg.pid]
        s2 == IF msg.session_id # None
              THEN [s1 EXCEPT !.session_id = msg.session_id] ELSE s1
        s3 == IF msg.cwd # None
              THEN [s2 EXCEPT !.cwd = msg.cwd,
                              !.display_name = format_display_name(s2.cli_name, msg.cwd)]
              ELSE s2
    IN  [s3 EXCEPT !.stop_received_at = NewStopReceivedAt(msg.event),
                   !.state = IF status.last_update = 0 /\ status.last_event # None
                             THEN s3.state
                             ELSE NewState(msg.event, s3.state)]

\* The event branch up to drop(states_guard), applied to the record of the key.
ApplyEvent(status, msg) ==
    LET s1 == [status EXCEPT !.last_event = msg.event,
                             !.last_update = 0,
                             !.pid = msg.pid]
        s2 == IF msg.session_id # None
              THEN [s1 EXCEPT !.session_id = msg.session_id] ELSE s1
        s3 == IF msg.cwd # None
              THEN [s2 EXCEPT !.cwd = msg.cwd,
                              !.display_name = format_display_name(s2.cli_name, msg.cwd)]
              ELSE s2
    IN  [s3 EXCEPT !.stop_received_at = NewStopReceivedAt(msg.event),
                   !.state = NewState(msg.event, s3.state)]

\* Mutant: the sweep confirms a pending Stop whatever its age.
StopExpired_NoGrace(elapsed) == elapsed >= 0

\* stop_time.elapsed() > Duration::from_secs(3)
StopExpired(elapsed) == elapsed > GraceTicks

\* status.last_update.elapsed() > timeout * 6
WaitingExpired(elapsed) == elapsed > IdleTicks

Promotes(status) ==
    /\ status.stop_received_at # NoInstant
    /\ StopExpired(status.stop_received_at)

\* First `if` of the sweep loop body.
SweepStop(status) ==
    IF Promotes(status)
    THEN [status EXCEPT !.state = "WaitingInput", !.stop_received_at = NoInstant]
    ELSE status

\* Mutant: the demotion looks at the age of the record only.
Demotes_AnyState(status) == WaitingExpired(status.last_update)

Demotes(status) ==
    /\ status.state = "WaitingInput"
    /\ WaitingExpired(status.last_update)

\* Second `if` of the sweep loop body.
SweepWaiting(status) ==
    IF Demotes(status) THEN [status EXCEPT !.state = "Idle"] ELSE status

\* The body of `for status in states_guard.values_mut()`.
SweepRecord(status) == SweepWaiting(SweepStop(status))

\* state_updated after the sweep loop.
SweepUpdated(states) ==
    \E k \in DOMAIN states : Promotes(states[k]) \/ Demotes(SweepStop(states[k]))

\* Mutant: Working tested before WaitingInput.
calculate_aggregate_state_WorkingFirst(states) ==
    IF DOMAIN states = {} THEN "Offline"
    ELSE LET has_waiting == \E k \in DOMAIN states : states[k].state = "WaitingInput"
             has_working == \E k \in DOMAIN states : states[k].state = "Working"
             has_idle    == \E k \in DOMAIN states : states[k].state = "Idle"
         IN  IF has_working THEN "Working"
             ELSE IF has_waiting THEN "WaitingInput"
             ELSE IF has_idle THEN "Idle"
             ELSE "Offline"

calculate_aggregate_state(states) ==
    IF DOMAIN states = {} THEN "Offline"
    ELSE LET has_waiting == \E k \in DOMAIN states : states[k].state = "WaitingInput"
             has_working == \E k \in DOMAIN states : states[k].state = "Working"
             has_idle    == \E k \in DOMAIN states : states[k].state = "Idle"
         IN  IF has_waiting THEN "WaitingInput"
             ELSE IF has_working THEN "Working"
             ELSE IF has_idle THEN "Idle"
             ELSE "Offline"

\* state_changed / changed
StateChanged(aggregate_state, last) == aggregate_state # last

\* Mutant: the new aggregate is never stored.
RememberAggregate_Stale(aggregate_state, last) == last

\* if state_changed { last_aggregate_state = aggregate_state; }
RememberAggregate(aggregate_state, last) ==
    IF StateChanged(aggregate_state, last) THEN aggregate_state ELSE last

\* Mutant: the timer branch notifies only when the aggregate changed.
TimerNotifies_OnlyOnChange(aggregate_state, last, updated) ==
    StateChanged(aggregate_state, last)

\* if aggregate_state != last_aggregate_state || state_updated
TimerNotifies(aggregate_state, last, updated) ==
    StateChanged(aggregate_state, last) \/ updated

\* states.lock().unwrap() returns at once: no thread holds the guard.
Lockable(guard) == guard = "none"

\* Mutant: the guard is still alive when the critical section is left.
Dropped_Held(holder) == holder

\* drop(states_guard): the holder of the guard after the critical section.
Dropped(holder) == "none"

\* Mutant: the event's writes go to a copy of the record, not to the map.
Committed_Copy(states, key, status) ==
    [k \in DOMAIN states \cup {key} |->
        IF k \in DOMAIN states THEN states[k]
        ELSE with_details(status.cli_name, status.session_id, status.cwd)]

\* Mutant: the record of a session that has ended is taken out of the map.
Committed_Forget(states, key, status) ==
    [k \in (DOMAIN states \cup {key}) \ (IF status.state = "Offline" THEN {key} ELSE {}) |->
        IF k = key THEN status ELSE states[k]]

\* The map after entry(key).or_insert_with(..) and the writes through the
\* reference it returns.
Committed(states, key, status) ==
    [k \in DOMAIN states \cup {key} |-> IF k = key THEN status ELSE states[k]]

\* Mutant: the event branch passes the tool name only.
CurrentOf_Message(status) ==
    [pid |-> NoPid, cwd |-> None, cli_name |-> status.cli_name]

\* current_pid, current_cwd, current_cli
CurrentOf(status) ==
    [pid |-> status.pid, cwd |-> status.cwd, cli_name |-> status.cli_name]

\* The StateChangeEvent of the timeout branch.
TimerEvent(aggregate_state, changed) ==
    [state |-> aggregate_state, pid |-> NoPid, cwd |-> None, cli_name |-> "",
     state_changed |-> changed]

-----------------------------------------------------------------------------
(* Initial state: lib.rs seeds the map from the process scan, then starts  *)
(* the registry thread.                                                    *)

ScannedProcesses ==
    { [name |-> "gemini", pid |-> 7, cwd |-> "/w/app"] }

SeedStatus(process) ==
    [with_details(process.name, None, process.cwd)
        EXCEPT !.state = "Working", !.pid = process.pid]

Seeded(processes) ==
    [ key \in {p.name : p \in processes} |->
        SeedStatus(CHOOSE p \in processes : p.name = key) ]

\* determine_tray_state_from_processes
determine_tray_state_from_processes(processes) ==
    IF processes = {} THEN "Gray" ELSE "Green"

\* setup: the process scan sets the tray state and seeds the map.
SeededWith(processes) ==
    /\ cli_states = Seeded(processes)
    /\ tray_state = determine_tray_state_from_processes(processes)
    /\ cli_processes = processes

\* No CLI process runs when the application starts.
Unseeded == SeededWith({})

\* AppState and SittingReminderState::default()
NoReminder ==
    /\ fired = {}
    /\ sitting_minutes = 0
    /\ awaiting_standup = FALSE
    /\ reminder_sent_at = NoInstant

NoCallback ==
    [state |-> None, pid |-> NoPid, cwd |-> None, cli_name |-> None,
     state_changed |-> FALSE]

NoCurrent == [pid |-> NoPid, cwd |-> None, cli_name |-> None]

NoReport == [state |-> None, state_changed |-> FALSE]

\* No call of the activity monitor is in progress.
NoCall ==
    [pc |-> "idle", secs |-> 0, last |-> 0, monitoring_start |-> 0,
     event_count |-> 0, now |-> 0, inactive |-> FALSE]

\* ActivityMonitor::new()
Constructed ==
    /\ wall_clock = BootTime
    /\ last_activity = BootTime
    /\ is_monitoring = FALSE
    /\ event_count = 0
    /\ monitoring_start_time = 0
    /\ observer = "idle"
    /\ caller = NoCall
    /\ recorded = FALSE
    /\ recorded_before = FALSE
    /\ disturbed = FALSE
    /\ typed = FALSE

\* The threads that call ActivityMonitor::start: the sitting timer thread
\* and the menu handler of toggle_sitting_reminder.
Starters == {"sit", "menu"}

\* ActivityMonitor::new(): is_running is false, no thread has been spawned.
NotLaunched ==
    /\ is_running = FALSE
    /\ starting = [t \in Starters |-> "idle"]
    /\ loops = 0
    /\ launched = 0
    /\ listen_failed = FALSE

\* The sitting timer thread has called start() and the spawned thread is
\* inside rdev::listen.
Listening ==
    /\ is_running = TRUE
    /\ starting = [t \in Starters |-> IF t = "sit" THEN "done" ELSE "idle"]
    /\ loops = 1
    /\ launched = 1
    /\ listen_failed = FALSE

\* The configuration with the notifications and the reminder switched off.
SwitchedOff ==
    /\ sitting_reminder_enabled = FALSE
    /\ sound_enabled = FALSE
    /\ auto_bring_to_front = FALSE

\* The clients' connections.
Conns == 1..MaxConns

NoConn == [state |-> "none", lines |-> <<>>, skipped |-> FALSE, resumed |-> FALSE]

\* The IPC server thread has been spawned and nothing is at SOCKET_PATH.
Spawned ==
    /\ socket_file = "none"
    /\ other_listener = FALSE
    /\ denied = FALSE
    /\ server = "spawned"
    /\ conns = [c \in Conns |-> NoConn]
    /\ host = "running"
    /\ after_close = {}

\* The threads that lock the mutexes of AppState: the registry thread, which
\* runs the state change callback, the fallback scanner thread, the sitting
\* timer thread, and the main thread, which runs the menu handlers.
Threads == {"registry", "scanner", "sit", "menu"}

\* The mutexes of AppState but cli_states, whose guard is states_guard:
\* tray_state, sitting_minutes, sitting_reminder, and the one of ConfigManager.
Mutexes == {"tray_state", "sitting_minutes", "sitting_reminder", "config"}

\* No guard is alive and every thread is between two turns.
Unlocked ==
    /\ owner = [m \in Mutexes |-> "none"]
    /\ todo = [t \in Threads |-> <<>>]

\* No registry beside the application's.
NoReplica ==
    /\ reference = <<>>
    /\ replica = <<>>
    /\ swept = FALSE

ThreadStarted ==
    /\ channel = <<>>
    /\ pc = "recv"
    /\ waited = 0
    /\ last_aggregate_state = "Offline"
    /\ current = NoCurrent
    /\ state_updated = FALSE
    /\ callback = NoCallback
    /\ prev_aggregate = "Offline"
    /\ reported = NoReport
    /\ mutated = FALSE
    /\ states_guard = "none"

\* The state after construction, cli_states aside.
Started ==
    /\ ThreadStarted
    /\ NoReplica
    /\ Constructed
    /\ NotLaunched
    /\ SwitchedOff
    /\ Spawned
    /\ NoReminder
    /\ Unlocked

Init ==
    /\ \E processes \in SUBSET ScannedProcesses : SeededWith(processes)
    /\ Started

\* No CLI process was running when the application started.
InitSessions ==
    /\ Unseeded
    /\ Started

-----------------------------------------------------------------------------
(* Actions *)

Min(a, b) == IF a < b THEN a ELSE b

\* last_update is read only by the demotion test, which looks at WaitingInput
\* records, and every event resets it: its elapsed time is followed while the
\* record is WaitingInput or has a pending Stop, and is held at saturation
\* otherwise.
Timed(status) ==
    status.state = "WaitingInput" \/ status.stop_received_at # NoInstant

Older(status) ==
    [status EXCEPT !.last_update = IF Timed(status) THEN Min(@ + 1, MaxAge) ELSE MaxAge,
                   !.stop_received_at = IF @ = NoInstant THEN @
                                        ELSE Min(@ + 1, MaxStopAge)]

\* One tick passes while the registry thread is blocked in recv_timeout.
Tick ==
    /\ pc = "recv"
    /\ channel = <<>>
    /\ waited < RecvTimeoutTicks
    /\ waited' = waited + 1
    /\ cli_states' = [k \in DOMAIN cli_states |-> Older(cli_states[k])]
    /\ UNCHANGED <<channel, pc, last_aggregate_state, current, state_updated,
                   callback, prev_aggregate, reported, mutated, states_guard>>
    /\ UNCHANGED beside_registry

\* A connection worker (or the fallback scanner) sends a message.
Send(msg) ==
    /\ Len(channel) < MaxChannel
    /\ channel' = Append(channel, msg)
    /\ UNCHANGED <<cli_states, pc, waited, last_aggregate_state, current,
                   state_updated, callback, prev_aggregate, reported, mutated,
                   states_guard>>
    /\ UNCHANGED beside_registry

\* recv_timeout returns Ok(msg): the event branch up to drop(states_guard).
ReceiveEvent ==
    /\ pc = "recv"
    /\ channel # <<>>
    /\ Lockable(states_guard)
    /\ LET msg    == Head(channel)
           key    == make_state_key(msg.cli, msg.session_id)
           status == IF key \in DOMAIN cli_states
                     THEN cli_states[key]
                     ELSE with_details(msg.cli, msg.session_id, msg.cwd)
           after  == ApplyEvent(status, msg)
       IN  /\ cli_states' = Committed(cli_states, key, after)
           /\ current' = CurrentOf(after)
    /\ states_guard' = Dropped("registry")
    /\ channel' = Tail(channel)
    /\ pc' = "event"
    /\ mutated' = TRUE
    /\ UNCHANGED <<waited, last_aggregate_state, state_updated, callback,
                   prev_aggregate, reported>>
    /\ UNCHANGED beside_registry

\* The event branch after drop(states_guard): recompute, call on_state_change.
EventNotify ==
    /\ pc = "event"
    /\ Lockable(states_guard)
    /\ LET aggregate_state == calculate_aggregate_state(cli_states)
           state_changed   == StateChanged(aggregate_state, last_aggregate_state)
       IN  /\ last_aggregate_state' =
                 RememberAggregate(aggregate_state, last_aggregate_state)
           /\ callback' = [state |-> aggregate_state, pid |-> current.pid,
                           cwd |-> current.cwd, cli_name |-> current.cli_name,
                           state_changed |-> state_changed]
    /\ pc' = "callback"
    /\ current' = NoCurrent
    /\ UNCHANGED <<cli_states, channel, waited, state_updated, prev_aggregate,
                   reported, mutated, states_guard>>
    /\ UNCHANGED beside_registry

\* recv_timeout returns Err(Timeout): the sweep up to drop(states_guard).
TimeoutSweep ==
    /\ pc = "recv"
    /\ channel = <<>>
    /\ waited = RecvTimeoutTicks
    /\ Lockable(states_guard)
    /\ cli_states' = [k \in DOMAIN cli_states |-> SweepRecord(cli_states[k])]
    /\ states_guard' = Dropped("registry")
    /\ state_updated' = SweepUpdated(cli_states)
    /\ mutated' = (cli_states' # cli_states)
    /\ pc' = "timer"
    /\ UNCHANGED <<channel, waited, last_aggregate_state, current, callback,
                   prev_aggregate, reported>>
    /\ UNCHANGED beside_registry

\* The timeout branch after drop(states_guard): recompute; call on_state_change
\* if the aggregate changed or the sweep updated a record, else loop.
TimerNotify ==
    /\ pc = "timer"
    /\ Lockable(states_guard)
    /\ LET aggregate_state == calculate_aggregate_state(cli_states)
           changed         == StateChanged(aggregate_state, last_aggregate_state)
       IN  IF TimerNotifies(aggregate_state, last_aggregate_state, state_updated)
           THEN /\ last_aggregate_state' =
                      RememberAggregate(aggregate_state, last_aggregate_state)
                /\ callback' = TimerEvent(aggregate_state, changed)
                /\ pc' = "callback"
                /\ UNCHANGED <<waited, prev_aggregate, mutated>>
           ELSE /\ pc' = "recv"
                /\ waited' = 0
                /\ prev_aggregate' = aggregate_state
                /\ mutated' = FALSE
                /\ UNCHANGED <<last_aggregate_state, callback>>
    /\ state_updated' = FALSE
    /\ UNCHANGED <<cli_states, channel, current, reported, states_guard>>
    /\ UNCHANGED beside_registry

\* impl From<CliState> for TrayState
TrayState(state) ==
    CASE state = "Working"      -> "Green"
      [] state = "WaitingInput" -> "Red"
      [] state = "Idle"         -> "Red"
      [] state = "Offline"      -> "Gray"

\* Mutant: every callback that reports red alerts the user.
Alerts_OnRed(state_changed, new_tray_state, old_state) == new_tray_state = "Red"

\* if event.state_changed && new_tray_state == Red && old_state != Red
Alerts(state_changed, new_tray_state, old_state) ==
    /\ state_changed
    /\ new_tray_state = "Red"
    /\ old_state # "Red"

\* A write to a field of the monitor falls into a running query.
Disturbs == disturbed \/ caller.pc \in {"load_count", "now", "returned"}

\* The sitting reminder is due at this callback.
Reminds(state) ==
    /\ state = "Working"
    /\ sitting_reminder_enabled
    /\ ~awaiting_standup
    /\ sitting_minutes >= sitting_reminder_interval

\* on_state_change: sets the tray state, alerts the user, sends the sitting
\* reminder, locks cli_states for its snapshot of the records, rebuilds the
\* menu and returns; the thread loops to the next recv_timeout.
CallbackReturn ==
    /\ pc = "callback"
    /\ Lockable(states_guard)
    /\ LET new_tray_state == TrayState(callback.state)
           alerting       == Alerts(callback.state_changed, new_tray_state, tray_state)
           reminding      == Reminds(callback.state)
       IN  /\ tray_state' = new_tray_state
           /\ fired' =
                 (IF alerting /\ sound_enabled
                  THEN {"notify_cli_waiting"} ELSE {}) \cup
                 (IF alerting /\ auto_bring_to_front
                  THEN {"bring_cli_to_front"} ELSE {}) \cup
                 (IF reminding
                  THEN {"notify_smart_sitting_reminder"} ELSE {})
           /\ awaiting_standup' = (awaiting_standup \/ reminding)
           /\ reminder_sent_at' = IF reminding THEN wall_clock ELSE reminder_sent_at
           /\ last_activity' = IF reminding THEN wall_clock ELSE last_activity
           /\ disturbed' = IF reminding THEN Disturbs ELSE disturbed
           /\ typed' = IF reminding THEN FALSE ELSE typed
    /\ pc' = "recv"
    /\ waited' = 0
    /\ prev_aggregate' = callback.state
    /\ reported' = [state |-> callback.state, state_changed |-> callback.state_changed]
    /\ callback' = NoCallback
    /\ mutated' = FALSE
    /\ UNCHANGED <<cli_states, channel, last_aggregate_state, current, state_updated,
                   states_guard>>
    /\ UNCHANGED beside_callback

Registry ==
    \/ Tick
    \/ ReceiveEvent
    \/ EventNotify
    \/ TimeoutSweep
    \/ TimerNotify
    \/ CallbackReturn

\* One hooked session reporting every event, beside a tool reporting only
\* that it works or has ended; the process scan may have seeded the map.
Next ==
    \/ \E msg \in BusyMessage : Send(msg)
    \/ Registry

Spec == Init /\ [][Next]_vars

\* Two hooked sessions reporting every event.
NextSessions ==
    \/ \E msg \in SessionMessage : Send(msg)
    \/ Registry

SpecSessions == InitSessions /\ [][NextSessions]_vars

\* Another thread (fallback scanner, sitting timer, menu handler) locks
\* cli_states to read the records.
ReaderLock ==
    /\ Lockable(states_guard)
    /\ states_guard' = "reader"
    /\ UNCHANGED <<cli_states, channel, pc, waited, last_aggregate_state, current,
                   state_updated, callback, prev_aggregate, reported, mutated>>
    /\ UNCHANGED beside_registry

\* The reader's guard goes out of scope.
ReaderUnlock ==
    /\ states_guard = "reader"
    /\ states_guard' = "none"
    /\ UNCHANGED <<cli_states, channel, pc, waited, last_aggregate_state, current,
                   state_updated, callback, prev_aggregate, reported, mutated>>
    /\ UNCHANGED beside_registry

\* The registry, its senders and the threads that read the map under the lock.
NextLock ==
    \/ \E msg \in BusyMessage : Send(msg)
    \/ Registry
    \/ ReaderLock
    \/ ReaderUnlock

SpecLock == Init /\ [][NextLock]_vars

\* Three hooked sessions reporting every event within the first second of the
\* run: no recv_timeout expires.
NextBurst ==
    \/ \E msg \in CliMessage : Send(msg)
    \/ ReceiveEvent
    \/ EventNotify
    \/ CallbackReturn

SpecBurst == InitSessions /\ [][NextBurst]_vars

-----------------------------------------------------------------------------
(* Two more registries that are sent the same events: reference processes   *)
(* each event as it is sent, replica lets time pass between the events and  *)
(* runs its sweep.                                                          *)

\* The messages of the session claude:a, with and without pid and cwd.
KeyMessage ==
    [cli : {"claude"}, event : CliEvent, pid : Pids, session_id : {"a"}, cwd : Cwds]

\* The event branch up to drop(states_guard), applied to a map.
Processed(states, msg) ==
    LET key    == make_state_key(msg.cli, msg.session_id)
        status == IF key \in DOMAIN states
                  THEN states[key]
                  ELSE with_details(msg.cli, msg.session_id, msg.cwd)
    IN  Committed(states, key, ApplyEvent(status, msg))

InitReplica ==
    /\ Unseeded
    /\ Started

\* Both registries process the message.
Deliver(msg) ==
    /\ ~swept
    /\ reference' = Processed(reference, msg)
    /\ replica' = Processed(replica, msg)
    /\ UNCHANGED <<swept, beside_replica>>

\* One tick passes in replica.
Elapse ==
    /\ ~swept
    /\ replica' = [k \in DOMAIN replica |-> Older(replica[k])]
    /\ UNCHANGED <<reference, swept, beside_replica>>

\* The timeout branch of replica runs its sweep.
ReplicaSweep ==
    /\ ~swept
    /\ replica' = [k \in DOMAIN replica |-> SweepRecord(replica[k])]
    /\ swept' = SweepUpdated(replica)
    /\ UNCHANGED <<reference, beside_replica>>

NextReplica ==
    \/ \E msg \in KeyMessage : Deliver(msg)
    \/ Elapse
    \/ ReplicaSweep

SpecReplica == InitReplica /\ [][NextReplica]_vars

-----------------------------------------------------------------------------
(* The activity monitor (activity_monitor.rs): the rdev callback, the thread *)
(* that arms and queries it, the callback of the registry that resets it,    *)
(* and the wall clock.                                                       *)

\* The durations a caller asks about.
Durations == {0, StandupSecs}

\* The seconds at which a thread runs: the first seconds of the run, and
\* the seconds around the stand-up time after its first second.
Instants ==
    {BootTime + i : i \in 0..Slack} \cup
    {BootTime + StandupSecs - 1 + i : i \in 0..(Slack + 1)}

\* Mutant: the query does not look at the event counter.
NoEvents_Ignored(count) == FALSE

\* if event_count == 0
NoEvents(count) == count = 0

\* Mutant: activity in the second of start_monitoring counts as activity.
NoneSinceStart_Strict(last, monitoring_start) == last < monitoring_start

\* if last <= monitoring_start
NoneSinceStart(last, monitoring_start) == last <= monitoring_start

\* u64::saturating_sub
saturating_sub(a, b) == IF a >= b THEN a - b ELSE 0

\* Mutant: the duration has to be exceeded.
InactiveFor_Exceeds(now, last, secs) == saturating_sub(now, last) > secs

\* now.saturating_sub(last) >= secs
InactiveFor(now, last, secs) == saturating_sub(now, last) >= secs

\* The wall clock advances to a later second.
ClockTick(t) ==
    /\ t > wall_clock
    /\ wall_clock' = t
    /\ UNCHANGED <<last_activity, is_monitoring, event_count, monitoring_start_time,
                   observer, caller, recorded, recorded_before, disturbed>>
    /\ UNCHANGED beside_monitor

\* The wall clock is set back by one second.
ClockSetBack ==
    /\ wall_clock = MaxClock
    /\ wall_clock' = wall_clock - 1
    /\ UNCHANGED <<last_activity, is_monitoring, event_count, monitoring_start_time,
                   observer, caller, recorded, recorded_before, disturbed>>
    /\ UNCHANGED beside_monitor

\* if is_monitoring.load(Ordering::SeqCst)
Recording(monitoring) == monitoring

\* rdev::listen calls the callback with an input event; the callback loads
\* is_monitoring.
ObserverCheck ==
    /\ loops > 0
    /\ observer = "idle"
    /\ event_count < MaxEvents
    /\ observer' = IF Recording(is_monitoring) THEN "count" ELSE "idle"
    /\ typed' = TRUE
    /\ UNCHANGED <<last_activity, is_monitoring, event_count, monitoring_start_time,
                   wall_clock, caller, recorded, recorded_before, disturbed>>
    /\ UNCHANGED beside_input

\* event_count.fetch_add(1)
ObserverCount ==
    /\ observer = "count"
    /\ event_count' = event_count + 1
    /\ recorded' = TRUE
    /\ disturbed' = Disturbs
    /\ observer' = "store"
    /\ UNCHANGED <<last_activity, is_monitoring, monitoring_start_time, wall_clock,
                   caller, recorded_before>>
    /\ UNCHANGED beside_monitor

\* last_activity.store(now)
ObserverStore ==
    /\ observer = "store"
    /\ last_activity' = wall_clock
    /\ disturbed' = Disturbs
    /\ observer' = "idle"
    /\ UNCHANGED <<is_monitoring, event_count, monitoring_start_time, wall_clock,
                   caller, recorded, recorded_before>>
    /\ UNCHANGED beside_monitor

\* reset_activity(), called by the state change callback when it sends the
\* sitting reminder.
ResetActivity ==
    /\ last_activity' = wall_clock
    /\ last_activity' # last_activity
    /\ disturbed' = Disturbs
    /\ UNCHANGED <<is_monitoring, event_count, monitoring_start_time, wall_clock,
                   observer, caller, recorded, recorded_before>>
    /\ UNCHANGED beside_monitor

\* start_monitoring(): is_monitoring.store(true)
StartMonitoring ==
    /\ caller.pc = "idle"
    /\ is_monitoring' = TRUE
    /\ caller' = [caller EXCEPT !.pc = "arm_count"]
    /\ recorded_before' = (recorded_before \/ recorded)
    /\ recorded' = FALSE
    /\ UNCHANGED <<last_activity, event_count, monitoring_start_time, wall_clock,
                   observer, disturbed>>
    /\ UNCHANGED beside_monitor

\* start_monitoring(): event_count.store(0)
StartMonitoringCount ==
    /\ caller.pc = "arm_count"
    /\ event_count' = 0
    /\ caller' = [caller EXCEPT !.pc = "arm_start"]
    /\ UNCHANGED <<last_activity, is_monitoring, monitoring_start_time, wall_clock,
                   observer, recorded, recorded_before, disturbed>>
    /\ UNCHANGED beside_monitor

\* Mutant: start_monitoring ends with reset_activity().
StartMonitoringTime_ResetsActivity ==
    /\ caller.pc = "arm_start"
    /\ monitoring_start_time' = wall_clock
    /\ last_activity' = wall_clock
    /\ caller' = [caller EXCEPT !.pc = "idle"]
    /\ UNCHANGED <<is_monitoring, event_count, wall_clock,
                   observer, recorded, recorded_before, disturbed>>
    /\ UNCHANGED beside_monitor

\* start_monitoring(): monitoring_start_time.store(current_timestamp())
StartMonitoringTime ==
    /\ caller.pc = "arm_start"
    /\ monitoring_start_time' = wall_clock
    /\ caller' = [caller EXCEPT !.pc = "idle"]
    /\ UNCHANGED <<last_activity, is_monitoring, event_count, wall_clock,
                   observer, recorded, recorded_before, disturbed>>
    /\ UNCHANGED beside_monitor

\* stop_monitoring()
StopMonitoring ==
    /\ caller.pc = "idle"
    /\ is_monitoring
    /\ is_monitoring' = FALSE
    /\ UNCHANGED <<last_activity, event_count, monitoring_start_time, wall_clock,
                   observer, caller, recorded, recorded_before, disturbed>>
    /\ UNCHANGED beside_monitor

\* is_inactive_for(secs): last_activity.load(), monitoring_start_time.load()
\* (only the caller's own start_monitoring writes monitoring_start_time).
IsInactiveFor(secs) ==
    /\ caller.pc = "idle"
    /\ caller' = [NoCall EXCEPT !.pc = "load_count", !.secs = secs,
                                !.last = last_activity,
                                !.monitoring_start = monitoring_start_time]
    /\ disturbed' = FALSE
    /\ UNCHANGED <<last_activity, is_monitoring, event_count, monitoring_start_time,
                   wall_clock, observer, recorded, recorded_before>>
    /\ UNCHANGED beside_monitor

\* is_inactive_for: event_count.load() and the two early returns.
LoadEventCount ==
    /\ caller.pc = "load_count"
    /\ caller' =
         IF NoEvents(event_count)
         THEN [caller EXCEPT !.pc = "returned", !.event_count = event_count,
                             !.inactive = FALSE]
         ELSE IF NoneSinceStart(caller.last, caller.monitoring_start)
         THEN [caller EXCEPT !.pc = "returned", !.event_count = event_count,
                             !.inactive = TRUE]
         ELSE [caller EXCEPT !.pc = "now", !.event_count = event_count]
    /\ UNCHANGED <<last_activity, is_monitoring, event_count, monitoring_start_time,
                   wall_clock, observer, recorded, recorded_before, disturbed>>
    /\ UNCHANGED beside_monitor

\* is_inactive_for: current_timestamp() and the comparison.
CompareNow ==
    /\ caller.pc = "now"
    /\ caller' = [caller EXCEPT !.pc = "returned", !.now = wall_clock,
                                !.inactive = InactiveFor(wall_clock, caller.last,
                                                         caller.secs)]
    /\ UNCHANGED <<last_activity, is_monitoring, event_count, monitoring_start_time,
                   wall_clock, observer, recorded, recorded_before, disturbed>>
    /\ UNCHANGED beside_monitor

\* The caller has the result.
Returned ==
    /\ caller.pc = "returned"
    /\ caller' = NoCall
    /\ disturbed' = FALSE
    /\ UNCHANGED <<last_activity, is_monitoring, event_count, monitoring_start_time,
                   wall_clock, observer, recorded, recorded_before>>
    /\ UNCHANGED beside_monitor

\* Where a thread is after its call of start().
Rest(t) == IF t = "sit" THEN "done" ELSE "idle"

\* The menu handler of toggle_sitting_reminder: toggles the setting and
\* calls start() if it is now on.
ToggleSittingReminder ==
    /\ starting["menu"] = "idle"
    /\ launched < MaxLaunches
    /\ sitting_reminder_enabled' = ~sitting_reminder_enabled
    /\ starting' = [starting EXCEPT !["menu"] =
                       IF sitting_reminder_enabled' THEN "load" ELSE "idle"]
    /\ UNCHANGED <<is_running, loops, launched, listen_failed,
                   sound_enabled, auto_bring_to_front>>
    /\ UNCHANGED beside_listen

\* The sitting timer thread starts: it calls start() if the reminder is on.
SitThreadStart ==
    /\ starting["sit"] = "idle"
    /\ starting' = [starting EXCEPT !["sit"] =
                       IF sitting_reminder_enabled THEN "load" ELSE "done"]
    /\ UNCHANGED <<is_running, loops, launched, listen_failed, config_vars>>
    /\ UNCHANGED beside_listen

\* start(): if self.is_running.load() { return; }
StartLoad(t) ==
    /\ starting[t] = "load"
    /\ starting' = [starting EXCEPT ![t] = IF is_running THEN Rest(t) ELSE "store"]
    /\ UNCHANGED <<is_running, loops, launched, listen_failed, config_vars>>
    /\ UNCHANGED beside_listen

\* start(): is_running.store(true) and std::thread::spawn; the thread calls
\* rdev::listen.
StartSpawn(t) ==
    /\ starting[t] = "store"
    /\ is_running' = TRUE
    /\ loops' = loops + 1
    /\ launched' = launched + 1
    /\ starting' = [starting EXCEPT ![t] = Rest(t)]
    /\ UNCHANGED <<listen_failed, config_vars>>
    /\ UNCHANGED beside_listen

\* Err(e) => is_running.store(false)
AfterListenError(running) == FALSE

\* rdev::listen returns an error (no input monitoring permission): the
\* thread stores is_running and ends.
ListenFails ==
    /\ loops > 0
    /\ observer = "idle"
    /\ loops' = loops - 1
    /\ is_running' = AfterListenError(is_running)
    /\ listen_failed' = TRUE
    /\ UNCHANGED <<starting, launched, config_vars>>
    /\ UNCHANGED beside_listen

InitObserver ==
    /\ Unseeded
    /\ ThreadStarted
    /\ NoReplica
    /\ Constructed
    /\ NotLaunched
    /\ sitting_reminder_enabled \in BOOLEAN
    /\ sound_enabled = FALSE
    /\ auto_bring_to_front = FALSE
    /\ Spawned
    /\ NoReminder
    /\ Unlocked

NextObserver ==
    \/ ToggleSittingReminder
    \/ SitThreadStart
    \/ \E t \in Starters : StartLoad(t)
    \/ \E t \in Starters : StartSpawn(t)
    \/ ListenFails
    \/ ObserverCheck
    \/ ObserverCount
    \/ ObserverStore
    \/ StartMonitoring
    \/ StartMonitoringCount
    \/ StartMonitoringTime
    \/ StopMonitoring

SpecObserver == InitObserver /\ [][NextObserver]_vars

InitMonitor ==
    /\ Unseeded
    /\ ThreadStarted
    /\ NoReplica
    /\ Constructed
    /\ Listening
    /\ sitting_reminder_enabled = TRUE
    /\ sound_enabled = FALSE
    /\ auto_bring_to_front = FALSE
    /\ Spawned
    /\ NoReminder
    /\ Unlocked

NextMonitor ==
    \/ \E t \in Instants : ClockTick(t)
    \/ ClockSetBack
    \/ ObserverCheck
    \/ ObserverCount
    \/ ObserverStore
    \/ ResetActivity
    \/ StartMonitoring
    \/ StartMonitoringCount
    \/ StartMonitoringTime
    \/ StopMonitoring
    \/ \E secs \in Durations : IsInactiveFor(secs)
    \/ LoadEventCount
    \/ CompareNow
    \/ Returned

SpecMonitor == InitMonitor /\ [][NextMonitor]_vars

-----------------------------------------------------------------------------
(* The state change callback of lib.rs with the settings it reads and the    *)
(* sitting timer that counts the minutes.                                    *)

\* The messages of the session claude:a.
AlertMessage == { m \in CliMessage : m.session_id = "a" }

\* One turn of the sitting timer's loop while no reminder awaits its answer:
\* the minute is counted.
SitMinute ==
    /\ ~awaiting_standup
    /\ sitting_minutes < MaxMinutes
    /\ sitting_minutes' = sitting_minutes + 1
    /\ UNCHANGED <<tray_state, fired, awaiting_standup, reminder_sent_at>>
    /\ UNCHANGED beside_sitting

\* The settings are as the user left them.
InitAlert ==
    /\ \E processes \in SUBSET ScannedProcesses : SeededWith(processes)
    /\ ThreadStarted
    /\ NoReplica
    /\ Constructed
    /\ NotLaunched
    /\ Spawned
    /\ NoReminder
    /\ Unlocked
    /\ sitting_reminder_enabled \in BOOLEAN
    /\ sound_enabled \in BOOLEAN
    /\ auto_bring_to_front \in BOOLEAN

\* One hooked session reporting every event, and the sitting timer.
NextAlert ==
    \/ \E msg \in AlertMessage : Send(msg)
    \/ Registry
    \/ SitMinute

SpecAlert == InitAlert /\ [][NextAlert]_vars

\* is_inactive_for(secs) with its three loads and current_timestamp() seeing
\* one state of the monitor.
is_inactive_for(secs) ==
    IF NoEvents(event_count) THEN FALSE
    ELSE IF NoneSinceStart(last_activity, monitoring_start_time) THEN TRUE
    ELSE InactiveFor(wall_clock, last_activity, secs)

\* if sent_at.elapsed().as_secs() >= 120 { if is_inactive_for(120) { ..
StoodUp(sent_at) ==
    /\ sent_at # NoInstant
    /\ saturating_sub(wall_clock, sent_at) >= StandupSecs
    /\ is_inactive_for(StandupSecs)

\* if sent_at.elapsed().as_secs() >= 120
Answered(sent_at) ==
    /\ sent_at # NoInstant
    /\ saturating_sub(wall_clock, sent_at) >= StandupSecs

\* One turn of the sitting timer's loop while a reminder awaits its answer:
\* once two minutes have passed since the reminder the thread asks the
\* monitor, resets the minutes if the user was away and clears the waiting
\* state; then the minute is counted.
SitCheck ==
    /\ awaiting_standup
    /\ sitting_minutes <= MaxMinutes
    /\ sitting_minutes' =
          (IF StoodUp(reminder_sent_at) THEN 0 ELSE sitting_minutes) + 1
    /\ awaiting_standup' = ~Answered(reminder_sent_at)
    /\ reminder_sent_at' =
          IF Answered(reminder_sent_at) THEN NoInstant ELSE reminder_sent_at
    /\ UNCHANGED <<tray_state, fired>>
    /\ UNCHANGED beside_sitting

\* What the hook of the session claude:a reports while the user is reminded.
SitMessage == { m \in CliMessage : m.session_id = "a" /\ m.event \in {"Working", "SessionEnd"} }

\* The registry with one hooked session, the sitting timer, the wall clock
\* and the user's input; the sitting reminder is on and the listen thread
\* runs.
NextSitting ==
    \/ \E msg \in SitMessage : Send(msg)
    \/ Registry
    \/ SitMinute
    \/ SitCheck
    \/ \E t \in Instants : ClockTick(t)
    \/ ObserverCheck

SpecSitting == InitMonitor /\ [][NextSitting]_vars

-----------------------------------------------------------------------------
(* The fallback scanner thread of lib.rs and the CLI processes it looks for. *)

\* The processes of a run with a hooked and an unhooked tool.
ScannedTools ==
    { [name |-> "claude", pid |-> 7, cwd |-> "/w/app"],
      [name |-> "codex",  pid |-> 9, cwd |-> None] }

\* let hooked_clis = ["claude", "gemini"]
hooked_clis == {"claude", "gemini"}

\* str::contains, for a key or a process name s and a tool name or key part:
\* a key is the tool name, alone or followed by ":" and the session id.
Contains(s, part) == s = part \/ s = part \o ":a"

\* hooked_clis.iter().any(|&h| name.contains(h))
is_hooked(name) == \E h \in hooked_clis : Contains(name, h)

\* hook_states.keys().any(|k| cli_name.contains(k))
has_state(cli_name) == \E k \in DOMAIN cli_states : Contains(cli_name, k)

\* The hook of the session claude:a reports tool use, Stop and the end.
ScanMessage ==
    { m \in CliMessage : m.session_id = "a" /\ m.event \in {"Working", "Stop", "SessionEnd"} }

\* The scanner, holding the lock of cli_states, finds a process of a tool
\* without hooks that has no record and sends a Working event for it.
ScanOnline(process) ==
    /\ process \in cli_processes
    /\ Lockable(states_guard)
    /\ ~is_hooked(process.name)
    /\ ~has_state(process.name)
    /\ Send([cli |-> process.name, event |-> "Working", pid |-> process.pid,
             session_id |-> None, cwd |-> None])

\* The scanner finds the record of a tool without hooks none of whose
\* processes runs, and sends a SessionEnd event for its key.
ScanOffline(cli) ==
    /\ cli \in DOMAIN cli_states
    /\ Lockable(states_guard)
    /\ ~is_hooked(cli)
    /\ ~\E process \in cli_processes : Contains(process.name, cli)
    /\ Send([cli |-> cli, event |-> "SessionEnd", pid |-> NoPid,
             session_id |-> None, cwd |-> None])

\* A CLI process exits.
ProcessExit(process) ==
    /\ process \in cli_processes
    /\ cli_processes' = cli_processes \ {process}
    /\ UNCHANGED beside_scan

\* A CLI process is started.
ProcessStart(process) ==
    /\ process \notin cli_processes
    /\ cli_processes' = cli_processes \cup {process}
    /\ UNCHANGED beside_scan

InitScan ==
    /\ \E processes \in SUBSET ScannedTools : SeededWith(processes)
    /\ Started

\* The registry with one hooked session, the scanner, and the processes of
\* the tools starting and exiting.
NextScan ==
    \/ \E msg \in ScanMessage : Send(msg)
    \/ Registry
    \/ \E process \in ScannedTools : ScanOnline(process)
    \/ \E cli \in {"claude", "claude:a", "codex"} : ScanOffline(cli)
    \/ \E process \in ScannedTools : ProcessExit(process)
    \/ \E process \in ScannedTools : ProcessStart(process)

SpecScan == InitScan /\ [][NextScan]_vars

-----------------------------------------------------------------------------
(* The IPC server (ipc_server.rs): the socket file, the server thread, the   *)
(* connections with their worker threads, and the end of the process.        *)

\* The lines a client writes.  A line is a JSON object, other text, or blank;
\* the fields of an object are given as the text has them (timestamp as its
\* token, "absent" if the object has no such field).
Line ==
    { [text |-> "object", cli |-> "claude", event |-> "working", pid |-> 7,
       session_id |-> "a", cwd |-> "/w/app", timestamp |-> "absent"],
      [text |-> "object", cli |-> "claude", event |-> "permission_prompt", pid |-> 7,
       session_id |-> "a", cwd |-> "/w/app", timestamp |-> "5"],
      [text |-> "object", cli |-> "claude", event |-> "session_end", pid |-> 7,
       session_id |-> "a", cwd |-> "/w/app", timestamp |-> "\"soon\""],
      [text |-> "other", cli |-> None, event |-> None, pid |-> NoPid,
       session_id |-> None, cwd |-> None, timestamp |-> "absent"],
      [text |-> "blank", cli |-> None, event |-> None, pid |-> NoPid,
       session_id |-> None, cwd |-> None, timestamp |-> "absent"] }

\* What a client writes on one connection.
Script == UNION { [1..n -> Line] : n \in 0..MaxLines }

\* #[serde(rename_all = "snake_case")] enum CliEvent
WireEvent ==
    [ session_start     |-> "SessionStart",
      session_end       |-> "SessionEnd",
      working           |-> "Working",
      stop              |-> "Stop",
      idle_prompt       |-> "IdlePrompt",
      permission_prompt |-> "PermissionPrompt" ]

\* The tokens serde_json reads as a u64.
U64Token == {"5"}

\* #[serde(default)] timestamp: Option<u64>
TimestampOk(token) == token = "absent" \/ token \in U64Token

\* data.trim().is_empty()
IsBlank(line) == line.text = "blank"

\* serde_json::from_str::<CliMessage>(&data) is Ok
ParseOk(line) ==
    /\ line.text = "object"
    /\ line.event \in DOMAIN WireEvent
    /\ TimestampOk(line.timestamp)

\* The CliMessage of a line, as far as the registry reads it.
Parsed(line) ==
    [cli |-> line.cli, event |-> WireEvent[line.event], pid |-> line.pid,
     session_id |-> line.session_id, cwd |-> line.cwd]

\* Mutant: the worker ends at a line that does not parse.
AfterParseError_Break(state) == "closed"

\* Err(e) => eprintln!("Failed to parse CLI message ...")
AfterParseError(state) == state

\* Mutant: a failed read ends every worker.
EndsWith_All(c, d) == TRUE

\* The workers that end when the read of connection c fails or ends.
EndsWith(c, d) == d = c

\* start_ipc_server: if socket_path.exists() { let _ = remove_file(socket_path); }
ServerRemove ==
    /\ host = "running"
    /\ server = "spawned"
    /\ socket_file' = IF denied THEN socket_file ELSE "none"
    /\ server' = "bind"
    /\ UNCHANGED <<other_listener, denied, conns, host, after_close>>
    /\ UNCHANGED <<registry_vars, beside_ipc>>

\* start_ipc_server: UnixListener::bind(SOCKET_PATH); on an error the thread
\* prints it and returns.
ServerBind ==
    /\ host = "running"
    /\ server = "bind"
    /\ IF socket_file = "none" /\ ~denied
       THEN socket_file' = "own" /\ server' = "accepting"
       ELSE socket_file' = socket_file /\ server' = "failed"
    /\ UNCHANGED <<other_listener, denied, conns, host, after_close>>
    /\ UNCHANGED <<registry_vars, beside_ipc>>

\* A client connects to SOCKET_PATH and writes its lines.
Connect(c, script) ==
    /\ host = "running"
    /\ socket_file = "own"
    /\ conns[c].state = "none"
    /\ conns' = [conns EXCEPT ![c] = [NoConn EXCEPT !.state = "pending",
                                                    !.lines = script]]
    /\ UNCHANGED <<socket_file, other_listener, denied, server, host, after_close>>
    /\ UNCHANGED <<registry_vars, beside_ipc>>

\* listener.incoming() yields the connection; a worker thread is spawned.
Accept(c) ==
    /\ host = "running"
    /\ server = "accepting"
    /\ conns[c].state = "pending"
    /\ conns' = [conns EXCEPT ![c].state = "open"]
    /\ after_close' = IF \E d \in Conns : conns[d].state = "closed"
                      THEN after_close \cup {"accepted"} ELSE after_close
    /\ UNCHANGED <<socket_file, other_listener, denied, server, host>>
    /\ UNCHANGED <<registry_vars, beside_ipc>>

\* handle_connection: one turn of the loop over reader.lines() with Ok(data).
WorkerRead(c) ==
    /\ host = "running"
    /\ conns[c].state = "open"
    /\ conns[c].lines # <<>>
    /\ LET line == Head(conns[c].lines)
       IN  IF IsBlank(line)
           THEN /\ conns' = [conns EXCEPT ![c].lines = Tail(@)]
                /\ UNCHANGED <<channel, after_close>>
           ELSE IF ParseOk(line)
           THEN /\ Len(channel) < MaxChannel
                /\ channel' = Append(channel, Parsed(line))
                /\ conns' = [conns EXCEPT ![c].lines = Tail(@),
                                          ![c].resumed = @ \/ conns[c].skipped]
                /\ after_close' = IF \E d \in Conns : conns[d].state = "closed"
                                  THEN after_close \cup {"forwarded"}
                                  ELSE after_close
           ELSE /\ conns' = [conns EXCEPT ![c].lines = Tail(@),
                                          ![c].skipped = TRUE,
                                          ![c].state = AfterParseError(@)]
                /\ UNCHANGED <<channel, after_close>>
    /\ UNCHANGED <<socket_file, other_listener, denied, server, host>>
    /\ UNCHANGED <<beside_channel, beside_ipc>>

\* handle_connection: reader.lines() ends (the peer has closed) or yields
\* Err(e) (the read failed, or the bytes are no UTF-8): the worker returns.
WorkerEnd(c) ==
    /\ host = "running"
    /\ conns[c].state = "open"
    /\ conns' = [d \in Conns |->
                   IF EndsWith(c, d) /\ conns[d].state = "open"
                   THEN [conns[d] EXCEPT !.state = "closed"]
                   ELSE conns[d]]
    /\ UNCHANGED <<socket_file, other_listener, denied, server, host, after_close>>
    /\ UNCHANGED <<registry_vars, beside_ipc>>

\* The quit item of the tray menu: ipc_server::cleanup(), app.exit(0).
Quit ==
    /\ host = "running"
    /\ socket_file' = IF denied THEN socket_file ELSE "none"
    /\ host' = "exited"
    /\ UNCHANGED <<other_listener, denied, server, conns, after_close>>
    /\ UNCHANGED <<registry_vars, beside_ipc>>

\* The process ends in another way: a signal (kill, logout, shutdown) or a
\* panic.
Terminated ==
    /\ host = "running"
    /\ host' = "exited"
    /\ UNCHANGED <<socket_file, other_listener, denied, server, conns, after_close>>
    /\ UNCHANGED <<registry_vars, beside_ipc>>

\* The application starts with nothing at SOCKET_PATH, with the file a run
\* left behind, or with the file of a process that is listening on it.
InitTransport ==
    /\ Unseeded
    /\ ThreadStarted
    /\ NoReplica
    /\ Constructed
    /\ NotLaunched
    /\ SwitchedOff
    /\ socket_file \in {"none", "stale", "other"}
    /\ other_listener = (socket_file = "other")
    /\ denied \in BOOLEAN
    /\ server = "spawned"
    /\ conns = [c \in Conns |-> NoConn]
    /\ host = "running"
    /\ after_close = {}
    /\ NoReminder
    /\ Unlocked

\* The IPC server and its clients, with the registry thread receiving what
\* the workers send (no recv_timeout expires).
NextTransport ==
    \/ ServerRemove
    \/ ServerBind
    \/ \E c \in Conns, script \in Script : Connect(c, script)
    \/ \E c \in Conns : Accept(c)
    \/ \E c \in Conns : WorkerRead(c)
    \/ \E c \in Conns : WorkerEnd(c)
    \/ Quit
    \/ Terminated
    \/ host = "running" /\ ReceiveEvent
    \/ host = "running" /\ EventNotify
    \/ host = "running" /\ CallbackReturn

SpecTransport == InitTransport /\ [][NextTransport]_vars

-----------------------------------------------------------------------------
(* The mutexes of AppState and the threads that lock them (lib.rs): what    *)
(* each thread locks and drops in one turn of its loop or in one handler.   *)

Lock(m) == [op |-> "lock", mutex |-> m]

Drop(m) == [op |-> "drop", mutex |-> m]

\* A guard that lives for one statement, or for one call of a getter of
\* ConfigManager.
Temp(m) == <<Lock(m), Drop(m)>>

\* Mutant: the callback reads the minutes before it locks the reminder and
\* keeps their guard.
CallbackLocks_MinutesHeld(alerting, reminding) ==
    Temp("tray_state")
    \o (IF alerting THEN Temp("config") \o Temp("config") ELSE <<>>)
    \o Temp("config")
    \o (IF reminding
        THEN <<Lock("sitting_minutes"), Lock("sitting_reminder")>>
             \o Temp("config") \o Temp("config")
             \o <<Drop("sitting_reminder"), Drop("sitting_minutes")>>
        ELSE <<>>)
    \o Temp("sitting_minutes") \o Temp("cli_states") \o Temp("config")

\* The state change callback: the tray state; the settings of the alert if
\* it alerts; the setting of the reminder; if the reminder is on and the
\* state Working, the reminder's guard, and the minutes and the settings
\* under it; then the minutes, the snapshot of the records, and build_menu.
CallbackLocks(alerting, reminding) ==
    Temp("tray_state")
    \o (IF alerting THEN Temp("config") \o Temp("config") ELSE <<>>)
    \o Temp("config")
    \o (IF reminding
        THEN <<Lock("sitting_reminder")>>
             \o Temp("sitting_minutes") \o Temp("config") \o Temp("config")
             \o <<Drop("sitting_reminder")>>
        ELSE <<>>)
    \o Temp("sitting_minutes") \o Temp("cli_states") \o Temp("config")

\* One turn of the registry thread's loop: the map is locked for the event
\* or the sweep and again by calculate_aggregate_state; the callback runs
\* unless the sweep changed nothing.
RegistryLocks ==
    {Temp("cli_states") \o Temp("cli_states")} \cup
    {Temp("cli_states") \o Temp("cli_states") \o CallbackLocks(alerting, reminding) :
        alerting \in BOOLEAN, reminding \in BOOLEAN}

\* One turn of the fallback scanner's loop.
ScannerLocks == {Temp("cli_states") \o Temp("cli_states")}

\* One turn of the sitting timer's loop: the reminder's guard, with the
\* minutes locked under it if the user stood up; then the minutes, the
\* settings, the tray state, the snapshot of the records, and build_menu.
SitLocks ==
    { <<Lock("sitting_reminder")>>
      \o (IF stood_up THEN Temp("sitting_minutes") ELSE <<>>)
      \o <<Drop("sitting_reminder")>>
      \o Temp("sitting_minutes") \o Temp("config") \o Temp("tray_state")
      \o Temp("cli_states") \o Temp("config") : stood_up \in BOOLEAN }

\* The menu handlers: reset keeps the guard of the minutes to its end; the
\* toggle handlers change and save the configuration and rebuild the menu.
MenuLocks ==
    { <<Lock("sitting_minutes")>>
      \o Temp("tray_state") \o Temp("config") \o Temp("cli_states") \o Temp("config")
      \o <<Drop("sitting_minutes")>>,
      Temp("config") \o Temp("config") \o Temp("sitting_minutes")
      \o Temp("tray_state") \o Temp("cli_states") \o Temp("config") }

Turns(t) ==
    CASE t = "registry" -> RegistryLocks
      [] t = "scanner"  -> ScannerLocks
      [] t = "sit"      -> SitLocks
      [] t = "menu"     -> MenuLocks

\* The thread that holds the guard of a mutex.
Holder(m) == IF m = "cli_states" THEN states_guard ELSE owner[m]

\* A thread begins a turn of its loop, or the main thread a handler.
Begin(t, turn) ==
    /\ todo[t] = <<>>
    /\ turn \in Turns(t)
    /\ todo' = [todo EXCEPT ![t] = turn]
    /\ UNCHANGED <<owner, registry_vars, beside_registry_but_locks>>

\* mutex.lock().unwrap() returns.
Acquire(t) ==
    /\ todo[t] # <<>>
    /\ Head(todo[t]).op = "lock"
    /\ LET m == Head(todo[t]).mutex
       IN  /\ Holder(m) = "none"
           /\ IF m = "cli_states"
              THEN states_guard' = t /\ UNCHANGED owner
              ELSE owner' = [owner EXCEPT ![m] = t] /\ UNCHANGED states_guard
    /\ todo' = [todo EXCEPT ![t] = Tail(@)]
    /\ UNCHANGED <<beside_channel_but_guard, channel, beside_registry_but_locks>>

\* The guard goes out of scope or is dropped.
Release(t) ==
    /\ todo[t] # <<>>
    /\ Head(todo[t]).op = "drop"
    /\ LET m == Head(todo[t]).mutex
       IN  IF m = "cli_states"
           THEN states_guard' = "none" /\ UNCHANGED owner
           ELSE owner' = [owner EXCEPT ![m] = "none"] /\ UNCHANGED states_guard
    /\ todo' = [todo EXCEPT ![t] = Tail(@)]
    /\ UNCHANGED <<beside_channel_but_guard, channel, beside_registry_but_locks>>

NextThreads ==
    \/ \E t \in Threads, turn \in RegistryLocks \cup ScannerLocks \cup SitLocks \cup MenuLocks :
          Begin(t, turn)
    \/ \E t \in Threads : Acquire(t)
    \/ \E t \in Threads : Release(t)

SpecThreads == InitSessions /\ [][NextThreads]_vars

-----------------------------------------------------------------------------
(* Type invariant *)

CliStatus ==
    [ cli_name : {"claude", "gemini", "codex"}, state : CliState, pid : Pids,
      last_event : CliEvent \cup {None}, last_update : 0..MaxAge,
      session_id : {None, "a"}, cwd : Cwds,
      display_name : STRING, stop_received_at : {NoInstant} \cup (0..MaxStopAge) ]

TypeOK ==
    /\ \A k \in DOMAIN cli_states : cli_states[k] \in CliStatus
    /\ pc \in {"recv", "event", "timer", "callback"}
    /\ waited \in 0..RecvTimeoutTicks
    /\ last_aggregate_state \in CliState
    /\ Len(channel) <= MaxChannel
    /\ states_guard \in {"none", "reader"} \cup Threads
    /\ owner \in [Mutexes -> {"none"} \cup Threads]
    /\ DOMAIN todo = Threads
    /\ swept \in BOOLEAN
    /\ wall_clock \in Instants
    /\ last_activity \in Instants
    /\ monitoring_start_time \in Instants \cup {0}
    /\ event_count \in 0..MaxEvents
    /\ is_monitoring \in BOOLEAN
    /\ observer \in {"idle", "count", "store"}
    /\ caller.pc \in {"idle", "arm_count", "arm_start", "load_count", "now", "returned"}
    /\ is_running \in BOOLEAN
    /\ starting \in [Starters -> {"idle", "load", "store", "done"}]
    /\ loops \in 0..(MaxLaunches + 1)
    /\ launched \in 0..(MaxLaunches + 1)
    /\ listen_failed \in BOOLEAN
    /\ sitting_reminder_enabled \in BOOLEAN
    /\ sound_enabled \in BOOLEAN
    /\ auto_bring_to_front \in BOOLEAN
    /\ socket_file \in {"none", "stale", "other", "own"}
    /\ other_listener \in BOOLEAN
    /\ denied \in BOOLEAN
    /\ server \in {"spawned", "bind", "accepting", "failed"}
    /\ \A c \in Conns :
          /\ conns[c].state \in {"none", "pending", "open", "closed"}
          /\ Len(conns[c].lines) <= MaxLines
    /\ host \in {"running", "exited"}
    /\ after_close \subseteq {"accepted", "forwarded"}
    /\ tray_state \in {"Gray", "Green", "Red"}
    /\ fired \subseteq {"notify_cli_waiting", "bring_cli_to_front",
                        "notify_smart_sitting_reminder"}
    /\ sitting_minutes \in 0..(MaxMinutes + 1)
    /\ typed \in BOOLEAN
    /\ awaiting_standup \in BOOLEAN
    /\ reminder_sent_at \in {NoInstant} \cup Instants
    /\ cli_processes \subseteq ScannedProcesses \cup ScannedTools

-----------------------------------------------------------------------------
(* Vocabulary of the properties *)

Keys == DOMAIN cli_states

Pending(status) == status.stop_received_at # NoInstant

\* This step is the event branch taking a message off the channel.
EventStep == pc = "recv" /\ pc' = "event"

EventMsg == Head(channel)

EventKey == make_state_key(EventMsg.cli, EventMsg.session_id)

\* This step is a step of the registry thread (not a send, not a tick).
RegistryStep == pc' # pc

\* This step calls on_state_change.
Invocation == pc # "callback" /\ pc' = "callback"

-----------------------------------------------------------------------------
(* C5, C6: the transition table *)

TableState ==
    [ SessionStart     |-> "Working",
      SessionEnd       |-> "Offline",
      Working          |-> "Working",
      IdlePrompt       |-> "Idle",
      PermissionPrompt |-> "WaitingInput" ]

\* C5: every event other than Stop, applied to a record in any state or to a
\* record created by the event, sets the state by the table (SessionStart ->
\* Working, SessionEnd -> Offline, Working -> Working, IdlePrompt -> Idle,
\* PermissionPrompt -> WaitingInput at once) and clears the stop-pending marker.
C5_NonStopEventSetsTableState ==
    [][ (EventStep /\ EventMsg.event # "Stop") =>
          /\ EventKey \in DOMAIN cli_states'
          /\ cli_states'[EventKey].state = TableState[EventMsg.event]
          /\ cli_states'[EventKey].stop_received_at = NoInstant ]_vars

\* A PermissionPrompt has just been applied: the record is WaitingInput with no
\* marker before any time has passed.
C5_Witness ==
    /\ pc = "event"
    /\ \E k \in Keys :
         /\ cli_states[k].last_event = "PermissionPrompt"
         /\ cli_states[k].state = "WaitingInput"
         /\ cli_states[k].stop_received_at = NoInstant
         /\ cli_states[k].last_update = 0

\* C6: a Stop sets the stop-pending marker to the time of that Stop (elapsed 0,
\* whatever the marker was), leaves a Working, WaitingInput or Idle record in its
\* state and makes an Offline record, or one created by this Stop, Working.
C6_StopSetsMarkerKeepsState ==
    [][ (EventStep /\ EventMsg.event = "Stop") =>
          /\ EventKey \in DOMAIN cli_states'
          /\ cli_states'[EventKey].stop_received_at = 0
          /\ cli_states'[EventKey].state =
                IF EventKey \in Keys /\ cli_states[EventKey].state # "Offline"
                THEN cli_states[EventKey].state
                ELSE "Working" ]_vars

\* A Stop has been applied to an Idle record: still Idle, marker just set.
C6_Witness ==
    /\ pc = "event"
    /\ \E k \in Keys :
         /\ cli_states[k].last_event = "Stop"
         /\ cli_states[k].state = "Idle"
         /\ cli_states[k].stop_received_at = 0

-----------------------------------------------------------------------------
(* C7: the aggregate *)

Rank(state) ==
    CASE state = "WaitingInput" -> 3
      [] state = "Working"      -> 2
      [] state = "Idle"         -> 1
      [] state = "Offline"      -> 0

\* The state of highest priority among the records, Offline if there is none.
PriorityReduction(states) ==
    LET present == {states[k].state : k \in DOMAIN states} \cup {"Offline"}
    IN  CHOOSE s \in present : \A t \in present : Rank(t) <= Rank(s)

\* C7: the aggregate of every registry is the state of highest priority,
\* WaitingInput > Working > Idle > Offline, among its records; Offline for an
\* empty registry; and the aggregate handed to the callback is that state.
C7_AggregateIsPriorityReduction ==
    /\ calculate_aggregate_state(cli_states) = PriorityReduction(cli_states)
    /\ Keys = {} => calculate_aggregate_state(cli_states) = "Offline"
    /\ (\E k \in Keys : cli_states[k].state = "WaitingInput")
          => calculate_aggregate_state(cli_states) = "WaitingInput"
    /\ pc = "callback" => callback.state = PriorityReduction(cli_states)

\* One record WaitingInput, another Working, a third Idle, and the callback
\* running with the aggregate of the three.
C7_Witness ==
    /\ pc = "callback"
    /\ callback.state = "WaitingInput"
    /\ Cardinality({k \in Keys : cli_states[k].state = "WaitingInput"}) = 1
    /\ \E k \in Keys : cli_states[k].state = "Working"
    /\ \E k \in Keys : cli_states[k].state = "Idle"

-----------------------------------------------------------------------------
(* C1 - C4: the grace window and the sweep *)

\* The record of key k is Working and this step keeps it inside a grace window:
\* the step applies a Stop to it, or its Stop has been pending for less than
\* the grace window and the step applies no event to it.
InGraceWindow(k) ==
    /\ k \in Keys
    /\ cli_states[k].state = "Working"
    /\ \/ EventStep /\ EventKey = k /\ EventMsg.event = "Stop"
       \/ /\ Pending(cli_states[k])
          /\ cli_states[k].stop_received_at < GraceTicks
          /\ ~(EventStep /\ EventKey = k)

\* C1: from the Stop of a Working session until an event of that session less
\* than 3 s later, the session stays Working, never WaitingInput, and every
\* callback invoked meanwhile reports Working unless another session is
\* WaitingInput.
C1_NoTransientWaitingInput ==
    [][ \A k \in Keys : InGraceWindow(k) =>
          /\ cli_states'[k].state = "Working"
          /\ (Invocation /\ \A j \in DOMAIN cli_states' :
                               cli_states'[j].state # "WaitingInput")
                => callback'.state = "Working" ]_vars

\* A sweep has run inside the window (one tick before its end) and the record
\* is still Working with its Stop pending.
C1_Witness ==
    /\ pc = "timer"
    /\ \E k \in Keys :
         /\ cli_states[k].state = "Working"
         /\ cli_states[k].stop_received_at = GraceTicks - 1

\* C2 (as claimed): a record whose last event is a Stop received more than the
\* grace window plus two sweep periods ago (and not yet 60 s ago) is WaitingInput
\* with no marker, and if it is the only record the aggregate is WaitingInput.
C2_SilentStopIsWaitingInput ==
    \A k \in Keys :
       ( /\ cli_states[k].last_event = "Stop"
         /\ cli_states[k].last_update > GraceTicks + 2 * RecvTimeoutTicks
         /\ cli_states[k].last_update <= IdleTicks )
       => /\ cli_states[k].state = "WaitingInput"
          /\ ~Pending(cli_states[k])
          /\ Keys = {k} => calculate_aggregate_state(cli_states) = "WaitingInput"

\* C3 (as claimed): a pending Stop is confirmed within Horizon sweep periods of
\* the end of its grace window, whatever events the other sessions deliver.
C3_PendingStopConfirmedInBoundedTime ==
    \A k \in Keys :
       Pending(cli_states[k]) => cli_states[k].stop_received_at < MaxStopAge

\* C4 (as claimed): a WaitingInput record is demoted within Horizon sweep
\* periods of its last event becoming 60 s old.
C4_SilentWaitingInputDemoted ==
    \A k \in Keys :
       cli_states[k].state = "WaitingInput" => cli_states[k].last_update < MaxAge

-----------------------------------------------------------------------------
(* C8 - C10: the callback *)

\* A SessionEnd has just been applied to the record of key k.
JustEnded(k) ==
    /\ pc = "event"
    /\ cli_states[k].last_event = "SessionEnd"
    /\ cli_states[k].last_update = 0
    /\ current.cli_name = cli_states[k].cli_name

\* C8: a registry with a Working and a WaitingInput session aggregates to
\* WaitingInput; when the aggregate was WaitingInput and a SessionEnd has been
\* applied to one session, leaving another Working and no other WaitingInput,
\* the callback that follows reports Working with state_changed set.
C8_SessionEndFlipsAggregateBack ==
    [][ /\ ( /\ \E k \in Keys : cli_states[k].state = "Working"
             /\ \E k \in Keys : cli_states[k].state = "WaitingInput" )
           => calculate_aggregate_state(cli_states) = "WaitingInput"
        /\ \A k \in Keys :
             ( /\ JustEnded(k)
               /\ RegistryStep
               /\ prev_aggregate = "WaitingInput"
               /\ \E j \in Keys \ {k} : cli_states[j].state = "Working"
               /\ \A j \in Keys \ {k} : cli_states[j].state # "WaitingInput" )
             => /\ Invocation
                /\ callback'.state = "Working"
                /\ callback'.state_changed ]_vars

\* The callback runs with Working and the flag set, the previous aggregate
\* was WaitingInput and the session that was WaitingInput has ended.
C8_Witness ==
    /\ pc = "callback"
    /\ callback.state = "Working"
    /\ callback.state_changed
    /\ prev_aggregate = "WaitingInput"
    /\ \E k \in Keys : /\ cli_states[k].last_event = "SessionEnd"
                       /\ cli_states[k].state = "Offline"
                       /\ cli_states[k].last_update = 0

\* C9: a loop iteration that changed the registry (every processed event, and
\* every sweep that changed a record) goes on to call on_state_change, once,
\* with the aggregate of the registry as changed; the call returns to
\* recv_timeout, so no change is reported twice.
C9_EveryMutationReportedOnce ==
    [][ RegistryStep =>
          /\ (pc \in {"event", "timer"} /\ mutated) =>
                /\ Invocation
                /\ callback'.state = PriorityReduction(cli_states)
          /\ pc = "event" => mutated
          /\ pc = "callback" => pc' = "recv" /\ ~mutated' ]_vars

\* A sweep changed a record without changing the aggregate, and the callback
\* runs for it.
C9_Witness ==
    /\ pc = "callback"
    /\ mutated
    /\ callback.cli_name = ""
    /\ ~callback.state_changed

\* C10: the flag of an invocation is set exactly when its aggregate differs
\* from that of the previous recomputation (Offline before the first), and two
\* successive invocations with the same aggregate are never both flagged.
C10_FlagIffAggregateDiffers ==
    [][ Invocation =>
          /\ callback'.state_changed = (callback'.state # prev_aggregate)
          /\ (reported.state = callback'.state)
                => ~(reported.state_changed /\ callback'.state_changed) ]_vars

\* An invocation without the flag follows one with the same aggregate.
C10_Witness ==
    /\ pc = "callback"
    /\ ~callback.state_changed
    /\ reported.state = callback.state
    /\ reported.state_changed

-----------------------------------------------------------------------------
(* C11 - C13: the lock and the ownership of the map *)

\* C11: the registry thread never holds the guard of cli_states outside its
\* critical sections: not while it waits in recv_timeout, not between the
\* mutation and the scan, and not while on_state_change runs, so the snapshot
\* the callback takes under the lock completes as soon as no reader holds it;
\* a worker sending a message never takes or waits for the lock.
C11_LockNotHeldAcrossCallback ==
    /\ states_guard # "registry"
    /\ (pc = "callback" /\ states_guard # "reader") => ENABLED CallbackReturn
    /\ Len(channel) < MaxChannel => ENABLED (\E msg \in BusyMessage : Send(msg))

\* on_state_change runs for an event while a reader has just released the
\* lock and a worker has queued the next message.
C11_Witness ==
    /\ pc = "callback"
    /\ callback.cli_name = "claude"
    /\ states_guard = "none"
    /\ channel # <<>>

\* The record the loop iteration at pc = "event" has just written.
Visible(status) ==
    /\ status.last_update = 0
    /\ status.last_event # None
    /\ CurrentOf(status) = current

\* C12: between the commit of a mutation and the callback's return nothing
\* changes the map, so the aggregate handed to the callback is the priority
\* reduction of the records as committed; and when the callback is invoked for
\* an event, the record the event was written to is in the map, readable by
\* any thread that takes the lock.
C12_AggregateOfCommittedStates ==
    [][ /\ pc \in {"event", "timer", "callback"} => cli_states' = cli_states
        /\ Invocation => callback'.state = PriorityReduction(cli_states')
        /\ (Invocation /\ pc = "event") =>
              /\ \E k \in Keys : Visible(cli_states[k])
              /\ states_guard' = "none" ]_vars

\* A reader holds the lock between the commit of a PermissionPrompt and the
\* scan of the aggregate.
C12_Witness ==
    /\ pc = "event"
    /\ states_guard = "reader"
    /\ \E k \in Keys : /\ Visible(cli_states[k])
                       /\ cli_states[k].last_event = "PermissionPrompt"

\* C13 (as claimed): every record of the map was inserted by the registry's
\* event processing, which stamps the event on the record it creates; no
\* record comes from anywhere else.
C13_RecordsOnlyFromRegistry ==
    \A k \in Keys : cli_states[k].last_event # None

-----------------------------------------------------------------------------
(* C14 - C16: the fields and the keys of the records *)

\* C14 (as claimed): an event applied to an existing record overwrites pid,
\* session_id and cwd each only when the event supplies a value; a field the
\* event leaves absent keeps the record's value.
C14_AbsentFieldKeepsValue ==
    [][ (EventStep /\ EventKey \in Keys) =>
          LET old == cli_states[EventKey]
              new == cli_states'[EventKey]
          IN  /\ new.pid = IF EventMsg.pid # NoPid THEN EventMsg.pid ELSE old.pid
              /\ new.session_id = IF EventMsg.session_id # None
                                  THEN EventMsg.session_id ELSE old.session_id
              /\ new.cwd = IF EventMsg.cwd # None THEN EventMsg.cwd ELSE old.cwd ]_vars

\* C15: the event branch hands the callback the pid, cwd and tool name stored
\* in the record the event was applied to; the timeout branch hands it no pid,
\* no cwd and an empty tool name, also when it reports a promotion to
\* WaitingInput.
C15_CallbackCarriesTriggeringRecord ==
    [][ /\ EventStep =>
              /\ current'.pid = cli_states'[EventKey].pid
              /\ current'.cwd = cli_states'[EventKey].cwd
              /\ current'.cli_name = EventMsg.cli
        /\ (Invocation /\ pc = "event") =>
              /\ callback'.pid = current.pid
              /\ callback'.cwd = current.cwd
              /\ callback'.cli_name = current.cli_name
        /\ (Invocation /\ pc = "timer") =>
              /\ callback'.pid = NoPid
              /\ callback'.cwd = None
              /\ callback'.cli_name = "" ]_vars

\* The timeout branch reports the promotion of a session that has a pid and a
\* cwd, and the invocation carries neither.
C15_Witness ==
    /\ pc = "callback"
    /\ callback.state = "WaitingInput"
    /\ callback.state_changed
    /\ callback.pid = NoPid
    /\ callback.cli_name = ""
    /\ \E k \in Keys : /\ cli_states[k].state = "WaitingInput"
                       /\ cli_states[k].last_event = "Stop"
                       /\ cli_states[k].pid = 7
                       /\ cli_states[k].cwd = "/w/app"

\* The session key of the specification: the pair of tool and session id.
SessionKey(tool, session_id) == <<tool, session_id>>

\* The keys of the map whose record belongs to the session key.
RecordsOf(states, session_key) ==
    { k \in DOMAIN states :
        SessionKey(states[k].cli_name, states[k].session_id) = session_key }

\* C16: no two records of the map belong to the same session key (tool and
\* session id, or the tool alone); an event for a session key without a
\* record adds exactly one record and nothing fails, an event for a session
\* key with a record adds none, and in both cases the event is applied to the
\* one record of its session key.
C16_OneRecordPerSessionKey ==
    [][ /\ \A k \in Keys :
             RecordsOf(cli_states,
                       SessionKey(cli_states[k].cli_name, cli_states[k].session_id)) = {k}
        /\ EventStep =>
             LET session_key == SessionKey(EventMsg.cli, EventMsg.session_id)
                 before      == RecordsOf(cli_states, session_key)
                 after       == RecordsOf(cli_states', session_key)
             IN  /\ Cardinality(after) = 1
                 /\ before # {} => after = before /\ DOMAIN cli_states' = Keys
                 /\ before = {} => DOMAIN cli_states' = Keys \cup after
                 /\ \A k \in after : /\ cli_states'[k].last_event = EventMsg.event
                                     /\ cli_states'[k].last_update = 0 ]_vars

\* An event without session id has been applied to the record of the tool
\* claude while the session claude:a has a record of its own.
C16_Witness ==
    /\ pc = "event"
    /\ Cardinality(RecordsOf(cli_states, SessionKey("claude", "a"))) = 1
    /\ \E k \in RecordsOf(cli_states, SessionKey("claude", None)) :
          /\ cli_states[k].last_update = 0
          /\ cli_states[k].last_event = "Stop"
          /\ cli_states[k].state = "Idle"

-----------------------------------------------------------------------------
(* C17: determinism of the per-session machine *)

\* What the claim compares: every field but the instants.
Outcome(status) ==
    [ state        |-> status.state,
      last_event   |-> status.last_event,
      pid          |-> status.pid,
      session_id   |-> status.session_id,
      cwd          |-> status.cwd,
      display_name |-> status.display_name,
      stop_pending |-> Pending(status) ]

\* C17: two registries that processed the same events of one key, one at once
\* and one with time passing and sweeps running in between, none of which
\* changed a record, hold a record for the same key with the same state, last
\* event, pid, session id, cwd, display name and stop-pending flag.
C17_SameEventsSameRecord ==
    ~swept =>
       /\ DOMAIN replica = DOMAIN reference
       /\ \A k \in DOMAIN replica : Outcome(replica[k]) = Outcome(reference[k])

\* In replica the Stop of an Idle session has been pending for the whole grace
\* window, in reference it has just been processed.
C17_Witness ==
    /\ ~swept
    /\ \E k \in DOMAIN replica :
          /\ replica[k].state = "Idle"
          /\ replica[k].stop_received_at = GraceTicks
          /\ replica[k].pid = NoPid
          /\ reference[k].stop_received_at = 0

-----------------------------------------------------------------------------
(* C18 - C20: is_inactive_for *)

C19_QuietAfterArmingIsInactive ==
    ( /\ caller.pc = "returned"
      /\ caller.secs = StandupSecs
      /\ is_monitoring
      /\ recorded_before
      /\ ~recorded
      /\ monitoring_start_time >= BootTime
      /\ wall_clock >= monitoring_start_time + StandupSecs )
    => caller.inactive

\* C20: when the counter is not 0 and no field is written while the call
\* runs, is_inactive_for(secs) returns true if last_activity <=
\* monitoring_start_time, and otherwise whether now - last_activity, 0 if
\* last_activity is later than now, is at least secs.
C20_ResultWithEvents ==
    (caller.pc = "returned" /\ event_count >= 1 /\ ~disturbed) =>
       caller.inactive =
          IF last_activity <= monitoring_start_time
          THEN TRUE
          ELSE (IF caller.now >= last_activity
                THEN caller.now - last_activity ELSE 0) >= caller.secs

\* An event was counted after arming and exactly 120 s before the call of
\* is_inactive_for(120), which has returned true.
C20_Witness ==
    /\ caller.pc = "returned"
    /\ ~disturbed
    /\ event_count >= 1
    /\ last_activity > monitoring_start_time
    /\ caller.secs = StandupSecs
    /\ caller.now - last_activity = StandupSecs
    /\ caller.inactive

-----------------------------------------------------------------------------
(* C21, C22: start_monitoring, stop_monitoring and the rdev callback *)

\* C21: start_monitoring stores true in is_monitoring, 0 in event_count and
\* the current time in monitoring_start_time, and none of its steps changes
\* last_activity.
C21_ArmEffect ==
    [][ /\ (caller.pc = "idle" /\ caller'.pc = "arm_count") =>
              is_monitoring' /\ last_activity' = last_activity
        /\ (caller.pc = "arm_count" /\ caller'.pc = "arm_start") =>
              event_count' = 0 /\ last_activity' = last_activity
        /\ (caller.pc = "arm_start" /\ caller'.pc = "idle") =>
              /\ monitoring_start_time' = wall_clock
              /\ last_activity' = last_activity
              /\ is_monitoring' ]_vars

\* start_monitoring has just returned, later than the last counted event:
\* the monitor is armed from the current second, nothing is counted, and
\* last_activity still holds the earlier time.
C21_Witness ==
    /\ caller.pc = "idle"
    /\ is_monitoring
    /\ event_count = 0
    /\ monitoring_start_time = wall_clock
    /\ recorded_before
    /\ ~recorded
    /\ last_activity < monitoring_start_time

\* C22 (as claimed): while is_monitoring is false no step of the rdev
\* callback counts an event or stores last_activity (reset_activity, which is
\* not an input event, may), however the callback interleaves with
\* start_monitoring and stop_monitoring; and stop_monitoring changes
\* is_monitoring only: the other fields, the callback and the listen thread
\* stay as they are.
C22_DisarmedEventsIgnored ==
    [][ /\ ~is_monitoring =>
              /\ event_count' = event_count
              /\ (last_activity' = last_activity \/ ResetActivity)
        /\ (is_monitoring /\ ~is_monitoring') =>
              UNCHANGED <<last_activity, event_count, monitoring_start_time,
                          observer, is_running, loops>> ]_vars

-----------------------------------------------------------------------------
(* C23: ActivityMonitor::start *)

\* C23 (as claimed): once rdev::listen has returned an error, a call of
\* start() returns at its test of is_running and spawns no new listen thread.
C23_NoRestartAfterFailure ==
    [][ \A t \in Starters :
           (listen_failed /\ starting[t] = "load") => starting'[t] # "store" ]_vars

-----------------------------------------------------------------------------
(* C24 - C28: the IPC server *)

\* This step is a turn of the worker of connection c that has read a line.
ReadStep(c) ==
    /\ conns[c].state = "open"
    /\ conns[c].lines # <<>>
    /\ conns'[c].lines = Tail(conns[c].lines)

\* This step ends the worker of connection c.
EndStep(c) == conns[c].state = "open" /\ conns'[c].state = "closed"

\* An object with a known event whose timestamp is no u64.
TimestampMalformed(line) ==
    /\ line.text = "object"
    /\ line.event \in DOMAIN WireEvent
    /\ line.timestamp \notin {"absent"} \cup U64Token

\* C24: a worker that reads a line which does not parse as a CliMessage sends
\* nothing and keeps its connection open, and a worker that reads a
\* well-formed line, also after lines that did not parse, sends its message
\* on the channel.
C24_MalformedLineSkipped ==
    [][ \A c \in Conns :
          ReadStep(c) =>
            LET line == Head(conns[c].lines)
            IN  /\ conns'[c].state = "open"
                /\ (~IsBlank(line) /\ ~ParseOk(line)) => channel' = channel
                /\ ParseOk(line) => channel' = Append(channel, Parsed(line)) ]_vars

\* A connection on which a line was skipped and a later line was sent on.
C24_Witness ==
    \E c \in Conns :
       /\ conns[c].state = "open"
       /\ conns[c].skipped
       /\ conns[c].resumed

\* C25: the end of a worker, by a failed read or the peer closing, changes no
\* other connection and leaves the server thread accepting; afterwards a
\* worker that reads a well-formed line still sends its message, and a
\* pending connection can still be accepted.
C25_WorkerEndIsLocal ==
    [][ \A c \in Conns :
          /\ EndStep(c) =>
               /\ \A d \in Conns \ {c} : conns'[d] = conns[d]
               /\ server' = server
               /\ socket_file' = socket_file
          /\ (ReadStep(c) /\ ParseOk(Head(conns[c].lines))
                /\ \E d \in Conns : conns[d].state = "closed") =>
               channel' = Append(channel, Parsed(Head(conns[c].lines)))
          /\ (conns[c].state = "pending" /\ host = "running"
                /\ \E d \in Conns : conns[d].state = "closed") =>
               ENABLED Accept(c) ]_vars

\* A worker has ended; since then a connection was accepted and a message
\* was sent on.
C25_Witness ==
    /\ \E c \in Conns : conns[c].state = "closed"
    /\ after_close = {"accepted", "forwarded"}
    /\ server = "accepting"

\* C26 (as claimed): a server whose bind failed has accepted no connection,
\* and the file of a process that is listening on SOCKET_PATH stays in place.
C26_BindFailureHarmless ==
    /\ server = "failed" => \A c \in Conns : conns[c].state = "none"
    /\ other_listener => socket_file = "other"

\* C27 (as claimed): the file a run left behind is removed before the bind,
\* and when the process has ended its own file is not at SOCKET_PATH.
C27_NoFileOutlivesRun ==
    /\ (server = "bind" /\ ~denied) => socket_file # "stale"
    /\ host = "exited" => socket_file # "own"

\* C28 (as claimed): a worker that reads an object whose timestamp is
\* malformed sends the message of the object on the channel.
C28_MalformedTimestampProcessed ==
    [][ \A c \in Conns :
          (ReadStep(c) /\ TimestampMalformed(Head(conns[c].lines))) =>
             channel' = Append(channel, Parsed(Head(conns[c].lines))) ]_vars

-----------------------------------------------------------------------------
(* C29: the alerts of the state change callback *)

\* This step is a run of the state change callback.
CallbackRun == pc = "callback" /\ pc' = "recv"

\* What tells the user that a CLI waits for input.
WaitingAlert == {"notify_cli_waiting", "bring_cli_to_front"}

-----------------------------------------------------------------------------
(* C30: the aggregate after the last session *)

\* Everything that was to be reported has been reported and processed: the
\* channel is empty, the registry thread waits, no Stop is pending, every
\* session that sent an event has had its SessionEnd processed last, and the
\* scanner has ended the record of every tool without hooks.
AllReported ==
    /\ channel = <<>>
    /\ pc = "recv"
    /\ \A k \in DOMAIN cli_states :
          /\ ~Pending(cli_states[k])
          /\ cli_states[k].last_event # None =>
                /\ cli_states[k].last_event = "SessionEnd"
                /\ cli_states[k].state = "Offline"
          /\ ~is_hooked(k) => cli_states[k].state = "Offline"

\* C30 (as claimed), for the state in which nothing is left that changes a
\* record: when no CLI process runs and every session has ended, the
\* aggregate is Offline.
C30_OfflineAfterLastSession ==
    (cli_processes = {} /\ AllReported) =>
       calculate_aggregate_state(cli_states) = "Offline"

-----------------------------------------------------------------------------
(* C31: a tool without hooks that is started again *)

\* The scanner has nothing to send and the registry has processed what was
\* sent: the channel is empty, the registry thread waits, and no process of
\* a tool without hooks is without a record, no record of such a tool
\* without a process.
ScanSettled ==
    /\ channel = <<>>
    /\ pc = "recv"
    /\ \A process \in cli_processes :
          ~is_hooked(process.name) => has_state(process.name)
    /\ \A cli \in DOMAIN cli_states :
          (~is_hooked(cli) /\ cli_states[cli].state # "Offline")
             => \E process \in cli_processes : Contains(process.name, cli)

\* C31 (as claimed), for the state in which the scanner has done what it
\* does: the record of a running tool without hooks is not Offline.
C31_RunningToolNotOffline ==
    ScanSettled =>
       \A process \in cli_processes :
          ~is_hooked(process.name) =>
             /\ process.name \in DOMAIN cli_states
             /\ cli_states[process.name].state # "Offline"

-----------------------------------------------------------------------------
(* C32: the sweep that confirms a Stop *)

\* The sweep: recv_timeout has timed out and the loop over the records runs.
SweepStep == pc = "recv" /\ pc' = "timer"

\* C32 (as claimed): a record whose pending Stop a sweep confirms is
\* WaitingInput when that sweep ends, and so is the aggregate the callback
\* that follows the sweep is given.
C32_ConfirmedStopIsWaitingInput ==
    [][ SweepStep =>
           \A k \in Keys :
              Promotes(cli_states[k]) =>
                 /\ cli_states'[k].state = "WaitingInput"
                 /\ calculate_aggregate_state(cli_states') = "WaitingInput"
      ]_vars

-----------------------------------------------------------------------------
(* C33: the alert for a change to WaitingInput *)

\* C33 (as claimed): a run of the callback that reports a change of the
\* aggregate to WaitingInput sends the notification if sound is on and
\* brings the window to the front if that is on.
C33_ChangeToWaitingInputAlerts ==
    [][ (CallbackRun /\ callback.state_changed /\ callback.state = "WaitingInput") =>
           /\ sound_enabled => "notify_cli_waiting" \in fired'
           /\ auto_bring_to_front => "bring_cli_to_front" \in fired'
      ]_vars

-----------------------------------------------------------------------------
(* C34: what a result of true says *)

\* The run is younger than the stand-up time: every event counted so far
\* was counted less than StandupSecs seconds ago.
RunIsYoung == wall_clock < BootTime + StandupSecs

\* C34 (as claimed), for a query about the stand-up time in a run younger
\* than that and with no write falling into the query: if an event has been
\* counted in the armed window, is_inactive_for(120) does not return true.
C34_TrueMeansNoRecentEvent ==
    ( /\ caller.pc = "returned"
      /\ caller.secs = StandupSecs
      /\ caller.inactive
      /\ ~disturbed
      /\ RunIsYoung
      /\ is_monitoring )
    => ~(recorded /\ event_count >= 1)

-----------------------------------------------------------------------------
(* C35: the answer to a sitting reminder *)

\* The turn of the sitting timer that takes the answer to the reminder.
AnswerStep == awaiting_standup /\ ~awaiting_standup'

\* C35 (as claimed): when no input has reached the rdev callback since the
\* reminder was sent, the check the sitting timer makes two minutes or more
\* after the reminder resets the minutes: the turn ends with the minute it
\* counts itself and no more.
C35_QuietStandupResetsMinutes ==
    [][ (AnswerStep /\ ~typed) => sitting_minutes' = 1 ]_vars

-----------------------------------------------------------------------------
(* C36: one observer loop *)

\* C36 (as claimed): at most one thread is inside rdev::listen, however the
\* start() calls of the sitting timer thread and of the menu handler
\* interleave.
C36_AtMostOneObserverLoop == loops <= 1

-----------------------------------------------------------------------------
(* C38 - C40: invariants and frame of the registry *)

\* C38: a record with the stop-pending marker set has Stop as its last
\* event, and a WaitingInput record has Stop or PermissionPrompt as its last
\* event.
C38_LastEventOfPendingAndWaiting ==
    \A k \in Keys :
       /\ Pending(cli_states[k]) => cli_states[k].last_event = "Stop"
       /\ cli_states[k].state = "WaitingInput" =>
             cli_states[k].last_event \in {"Stop", "PermissionPrompt"}

\* A sweep has just confirmed the Stop of a record, which is WaitingInput
\* with Stop as its last event, and the callback is about to be told.
C38_Witness ==
    /\ pc = "timer"
    /\ state_updated
    /\ \E k \in Keys :
          /\ cli_states[k].state = "WaitingInput"
          /\ cli_states[k].last_event = "Stop"
          /\ ~Pending(cli_states[k])

\* The fields of a record a sweep may change.
SweptFields(status) ==
    [status EXCEPT !.state = "Offline", !.stop_received_at = NoInstant]

\* C39: a sweep changes nothing but state and stop_received_at of a record,
\* adds and removes no record, and leaves a record with no pending Stop that
\* is not WaitingInput as it is.
C39_SweepFrame ==
    [][ SweepStep =>
           /\ DOMAIN cli_states' = DOMAIN cli_states
           /\ \A k \in Keys :
                 /\ SweptFields(cli_states'[k]) = SweptFields(cli_states[k])
                 /\ (~Pending(cli_states[k]) /\ cli_states[k].state # "WaitingInput")
                       => cli_states'[k] = cli_states[k]
      ]_vars

\* A sweep has just changed a record beside a Working record with no
\* pending Stop whose last event is older than the demotion time.
C39_Witness ==
    /\ pc = "timer"
    /\ mutated
    /\ \E k \in Keys :
          /\ cli_states[k].state = "Working"
          /\ ~Pending(cli_states[k])
          /\ WaitingExpired(cli_states[k].last_update)

\* C40: no step removes a key from the map, and the record of a session
\* whose SessionEnd is processed is in the map with state Offline.
C40_KeysOnlyGrow ==
    [][ /\ DOMAIN cli_states \subseteq DOMAIN cli_states'
        /\ (EventStep /\ EventMsg.event = "SessionEnd") =>
              /\ EventKey \in DOMAIN cli_states'
              /\ cli_states'[EventKey].state = "Offline"
      ]_vars

\* The SessionEnd of a session has been processed and reported, and its
\* record is in the map, Offline, beside the record of another session.
C40_Witness ==
    /\ pc = "recv"
    /\ Cardinality(Keys) >= 2
    /\ \E k \in Keys :
          /\ cli_states[k].last_event = "SessionEnd"
          /\ cli_states[k].state = "Offline"
          /\ cli_states[k].session_id = "a"

-----------------------------------------------------------------------------
(* C37: no deadlock on the mutexes *)

\* The thread is blocked in lock(): the guard of the mutex is alive.
Waits(t) ==
    /\ todo[t] # <<>>
    /\ Head(todo[t]).op = "lock"
    /\ Holder(Head(todo[t]).mutex) # "none"

\* The threads of S that wait for a guard held by a thread of S, and so on:
\* the threads that wait for each other for ever.
RECURSIVE Stuck(_)
Stuck(S) ==
    LET still == { t \in S : Waits(t) /\ Holder(Head(todo[t]).mutex) \in S }
    IN  IF still = S THEN S ELSE Stuck(still)

\* C37: no threads wait for each other's guards for ever.
C37_NoDeadlock == Stuck(Threads) = {}

\* The sitting timer holds the reminder's guard and waits for the minutes,
\* which the reset handler holds while it waits for the records, which the
\* registry thread has locked; the scanner waits for the records too.
C37_Witness ==
    /\ owner["sitting_reminder"] = "sit"
    /\ Waits("sit")
    /\ owner["sitting_minutes"] = "menu"
    /\ Waits("menu")
    /\ states_guard = "registry"
    /\ Waits("scanner")

====
